---- MODULE Spec2Model ----
(***************************************************************************)
(* Checkmate backend: the resilience layer (per-operation circuit breakers *)
(* and the retry engine of ErrorRecoveryService), the session store with   *)
(* the frame handlers that read and rewrite Session Memory, the expiry     *)
(* sweep, and should_end_session and automatic recovery as functions of    *)
(* their inputs; the strictness filter and the routing of a Manager reply  *)
(* to a Checker as functions of their inputs; the WebSocketManager with    *)
(* its heartbeat loop, the websocket endpoint and the shutdown of the      *)
(* application; the SessionManager calls create, get, update, delete and   *)
(* list over both stores; the registry of circuit breakers; the manual     *)
(* retry endpoint; and the tool loop of a Checker.                         *)
(*                                                                         *)
(* Time is the UTC clock in whole seconds; delays are in milliseconds.     *)
(***************************************************************************)
EXTENDS Integers, Sequences, FiniteSets, TLC

\* ------------------------------------------------------------------------
\* Bounds of the model
\* ------------------------------------------------------------------------
MaxTime == 120
TimeStep == 30
MaxAttempts == 3
MaxFailures == 4
MaxDelayAttempt == 9
MaxFrames == 2
MaxClaims == 2
MaxWaiters == 1
MaxConnTime == 40

\* ------------------------------------------------------------------------
\* Program constants
\* ------------------------------------------------------------------------
FailureThreshold == 5
RecoveryTimeout == 60
DefaultMaxDelay == 60000
DefaultExponentialBase == 2
CriticalAttempts == 3
HeartbeatInterval == 10
ConnectionTimeout == 30

NoTime == -1
NoResult == [kind |-> "none"]

\* the members of the enumerations of models/schemas.py, by value
ErrorType ==
    {"validation_error", "session_not_found", "service_unavailable",
     "tool_execution_error", "rate_limit_exceeded", "network_error",
     "internal_error", "privacy_block"}

ErrorSeverity == {"low", "medium", "high", "critical"}

\* what the lookup of a name that is not there raises
AttributeError == "AttributeError"

\* variant: every name looked up is a member
Member_unchecked(enum, name) == name

\* Enum.NAME: the member, or AttributeError when the class has no such member
Member(enum, name) == IF name \in enum THEN name ELSE AttributeError

Callers == {"c1", "c2"}
Operations == {"get_session"}
Values == {"v1", "v2"}
Raised ==
    {"network", "auth", "validation", "not_found", "rate_limit",
     "service_unavailable", "internal"}
RandomSamples == {0, 999}

Min(a, b) == IF a <= b THEN a ELSE b

RECURSIVE Pow(_, _)
Pow(b, e) == IF e = 0 THEN 1 ELSE b * Pow(b, e - 1)

VARIABLES
    now,                \* datetime.utcnow(), seconds
    circuit_breakers,   \* ErrorRecoveryService.circuit_breakers
    operation_contexts, \* ErrorRecoveryService.operation_contexts
    pc,                 \* position of each caller inside retry_operation
    call,               \* locals of each caller's retry_operation
    streak,             \* observer: consecutive failed invocations per operation
    trial_calls,        \* observer: invocations since the breaker went half_open
    opened_at,          \* observer: when the breaker last went from not open to open
    delay_in,           \* inputs of _calculate_retry_delay under SpecDelay
    delay_out,          \* its result
    redis_client,       \* SessionManager.redis is not None
    redis,              \* the keys session:<id> of the durable store
    sessions,           \* SessionManager.sessions, the in-process fallback
    handler,            \* the websocket_endpoint task of each transport
    received,           \* observer: frames of the session in order of receipt
    ended,              \* observer: the session was ended and not created since
    committed,          \* observer: frames persisted since the session was created
    faulted,            \* observer: an operation of the durable store has failed
    last_cleanup,       \* when periodic_cleanup last ran the sweep
    end_in,             \* inputs of should_end_session under SpecEnd
    end_out,            \* what the call leaves
    rec_in,             \* inputs of _attempt_automatic_recovery under SpecRecovery
    rec_out,            \* what the call leaves
    filter_in,          \* inputs of apply_strictness_filter under SpecFilter
    filter_out,         \* the result it returns
    reply_in,           \* a Manager reply and what the models called after it do
    frame_out,          \* what the fact-check endpoint leaves for the frame
    connections,        \* WebSocketManager.connections
    heartbeat_task,     \* WebSocketManager._heartbeat_task, 0 for None
    loops,              \* the tasks running _heartbeat_loop
    waiters,            \* handlers suspended in stop_heartbeat_monitor, per task
    endpoint,           \* websocket_endpoint of each transport
    conn_event,         \* observer: the last send or sweep and what it did
    lifespan,           \* position of lifespan
    cleanup_task,       \* the task running periodic_cleanup
    mgr,                \* the call of a SessionManager method in progress
    latest,             \* observer: the memory last handed to a store write
    deleted,            \* observer: delete_session has returned for the id
    tool_loop           \* the locals of MediaAgent._invoke_with_tools

vars == <<now, circuit_breakers, operation_contexts, pc, call, streak,
          trial_calls, opened_at, delay_in, delay_out, redis_client, redis,
          sessions, handler, received, ended, committed, faulted,
          last_cleanup, end_in, end_out, rec_in, rec_out, filter_in,
          filter_out, reply_in, frame_out, connections, heartbeat_task,
          loops, waiters, endpoint, conn_event, lifespan, cleanup_task,
          mgr, latest, deleted, tool_loop>>

cbVars == <<now, circuit_breakers, operation_contexts, pc, call, streak,
           trial_calls, opened_at>>
delayVars == <<delay_in, delay_out>>
sessVars == <<redis_client, redis, sessions, handler, received, ended,
             committed, faulted, last_cleanup>>
filterVars == <<filter_in, filter_out>>
routeVars == <<reply_in, frame_out>>
connVars == <<connections, heartbeat_task, loops, waiters, endpoint,
             conn_event, lifespan, cleanup_task>>
apiVars == <<mgr, latest, deleted>>
toolVars == <<tool_loop>>
fnVars == <<end_in, end_out, rec_in, rec_out, filterVars, routeVars, connVars,
           apiVars, toolVars>>
retryVars == <<pc, call, streak, trial_calls, opened_at>>

\* ------------------------------------------------------------------------
\* RetryConfig and CircuitBreakerState
\* ------------------------------------------------------------------------
RetryConfig(max_attempts, base_delay, max_delay, exponential_base, jitter, backoff_strategy) ==
    [max_attempts |-> max_attempts, base_delay |-> base_delay,
     max_delay |-> max_delay, exponential_base |-> exponential_base,
     jitter |-> jitter, backoff_strategy |-> backoff_strategy]

\* configurations the callers of retry_operation pass: max_attempts from the
\* request of the manual retry endpoint, the other fields as get_session does
RetryConfigs ==
    { RetryConfig(m, 500, DefaultMaxDelay, DefaultExponentialBase, TRUE,
                  "exponential_backoff") : m \in 1..MaxAttempts }

CircuitBreakerState ==
    [failure_count |-> 0, last_failure_time |-> NoTime, state |-> "closed",
     next_attempt_time |-> NoTime, failure_threshold |-> FailureThreshold,
     recovery_timeout |-> RecoveryTimeout]

\* ------------------------------------------------------------------------
\* Pure parts of ErrorRecoveryService
\* ------------------------------------------------------------------------
\* variant: the cap max_delay is not applied
_calculate_retry_delay_uncapped(attempt, config, rnd) ==
    LET delay == IF config.backoff_strategy = "exponential_backoff"
                 THEN config.base_delay * Pow(config.exponential_base, attempt)
                 ELSE config.base_delay
    IN  IF config.jitter THEN (delay * (1000 + rnd)) \div 2000 ELSE delay

\* delay in ms; rnd is random.random() in thousandths, 0..999
_calculate_retry_delay(attempt, config, rnd) ==
    LET delay == IF config.backoff_strategy = "exponential_backoff"
                 THEN Min(config.base_delay * Pow(config.exponential_base, attempt),
                          config.max_delay)
                 ELSE config.base_delay
    IN  IF config.jitter THEN (delay * (1000 + rnd)) \div 2000 ELSE delay

\* the exception by the marker its message carries; the member looked up is
\* the one the source names
_classify_error(e) ==
    CASE e = "network" -> Member(ErrorType, "network_error")
      [] e = "auth" -> Member(ErrorType, "authentication_error")
      [] e = "validation" -> Member(ErrorType, "validation_error")
      [] e = "not_found" -> Member(ErrorType, "resource_not_found")
      [] e = "rate_limit" -> Member(ErrorType, "rate_limit_error")
      [] e = "service_unavailable" -> Member(ErrorType, "service_unavailable")
      [] OTHER -> Member(ErrorType, "internal_error")

\* the lists of members in the elif conditions are built before the test
_determine_severity(error_type, attempt_count) ==
    IF attempt_count >= CriticalAttempts THEN Member(ErrorSeverity, "critical")
    ELSE IF AttributeError \in {Member(ErrorType, "authentication_error"),
                                Member(ErrorType, "permission_error")}
         THEN AttributeError
    ELSE IF error_type \in {"authentication_error", "permission_error"}
         THEN Member(ErrorSeverity, "high")
    ELSE IF error_type \in {"network_error", "service_unavailable"}
         THEN (IF attempt_count = 1 THEN Member(ErrorSeverity, "medium")
               ELSE Member(ErrorSeverity, "high"))
    ELSE Member(ErrorSeverity, "low")

\* the registry after _update_circuit_breaker(operation, _) at time t
_update_circuit_breaker(cbs, operation, t) ==
    LET old == IF operation \in DOMAIN cbs THEN cbs[operation] ELSE CircuitBreakerState
        cnt == [old EXCEPT !.failure_count = @ + 1, !.last_failure_time = t]
        new == IF cnt.failure_count >= cnt.failure_threshold
               THEN [cnt EXCEPT !.state = "open",
                                !.next_attempt_time = t + cnt.recovery_timeout]
               ELSE cnt
    IN  [o \in (DOMAIN cbs) \cup {operation} |-> IF o = operation THEN new ELSE cbs[o]]

\* variant: an open breaker lets every request through
_circuit_breaker_allows_request_open(cbs, operation, t) ==
    IF operation \notin DOMAIN cbs THEN TRUE
    ELSE cbs[operation].state \in {"closed", "open", "half_open"}

\* the value _circuit_breaker_allows_request(operation) returns at time t
_circuit_breaker_allows_request(cbs, operation, t) ==
    IF operation \notin DOMAIN cbs THEN TRUE
    ELSE LET breaker == cbs[operation] IN
         CASE breaker.state = "closed" -> TRUE
           [] breaker.state = "open" ->
                breaker.next_attempt_time # NoTime /\ t >= breaker.next_attempt_time
           [] breaker.state = "half_open" -> TRUE
           [] OTHER -> FALSE

\* the registry after that call: an open breaker whose time has come is half_open
AfterAllowsRequest(cbs, operation, t) ==
    IF /\ operation \in DOMAIN cbs
       /\ cbs[operation].state = "open"
       /\ cbs[operation].next_attempt_time # NoTime
       /\ t >= cbs[operation].next_attempt_time
    THEN [cbs EXCEPT ![operation].state = "half_open"]
    ELSE cbs

\* variant: the reset closes the breaker and keeps its count
_reset_circuit_breaker_state_only(cbs, operation) ==
    IF operation \in DOMAIN cbs
    THEN [cbs EXCEPT ![operation].state = "closed",
                     ![operation].next_attempt_time = NoTime]
    ELSE cbs

\* the registry after _reset_circuit_breaker(operation)
_reset_circuit_breaker(cbs, operation) ==
    IF operation \in DOMAIN cbs
    THEN [cbs EXCEPT ![operation].failure_count = 0,
                     ![operation].state = "closed",
                     ![operation].next_attempt_time = NoTime]
    ELSE cbs

BreakerState(cbs, operation) ==
    IF operation \in DOMAIN cbs THEN cbs[operation].state ELSE "closed"

\* ------------------------------------------------------------------------
\* handle_error_with_recovery(error, operation, session_id, config,
\* auto_recover=False), as retry_operation calls it on the final attempt
\* ------------------------------------------------------------------------
OperationId(operation, session_id) == <<operation, session_id>>

AttemptCount(ctxs, operation_id) ==
    IF operation_id \in DOMAIN ctxs THEN ctxs[operation_id].attempt_count ELSE 0

\* operation_contexts after the context is created if absent and counted
ContextsAfterError(ctxs, operation_id) ==
    [i \in (DOMAIN ctxs) \cup {operation_id} |->
        IF i = operation_id
        THEN [attempt_count |-> AttemptCount(ctxs, operation_id) + 1]
        ELSE ctxs[i]]

RecoveryAction(action_type, auto_executable) ==
    [action_type |-> action_type, auto_executable |-> auto_executable]

\* the menus of _generate_recovery_actions, in the listed order
NetworkActions ==
    <<RecoveryAction("retry_with_backoff", TRUE),
      RecoveryAction("check_connectivity", TRUE),
      RecoveryAction("switch_to_offline_mode", TRUE)>>

AuthenticationActions ==
    <<RecoveryAction("refresh_credentials", TRUE),
      RecoveryAction("re_authenticate", FALSE)>>

RateLimitActions == <<RecoveryAction("exponential_backoff", TRUE)>>

ServiceUnavailableActions ==
    <<RecoveryAction("health_check", TRUE),
      RecoveryAction("fallback_service", TRUE)>>

DefaultActions == <<RecoveryAction("manual_retry", FALSE)>>

\* the chain of comparisons with the members of ErrorType: a comparison with
\* a member the class does not have raises when it is reached
_generate_recovery_actions(error_type) ==
    IF error_type = Member(ErrorType, "network_error")
    THEN [raised |-> FALSE, actions |-> NetworkActions]
    ELSE IF Member(ErrorType, "authentication_error") = AttributeError
    THEN [raised |-> TRUE, actions |-> << >>]
    ELSE IF error_type = "authentication_error"
    THEN [raised |-> FALSE, actions |-> AuthenticationActions]
    ELSE IF Member(ErrorType, "rate_limit_error") = AttributeError
    THEN [raised |-> TRUE, actions |-> << >>]
    ELSE IF error_type = "rate_limit_error"
    THEN [raised |-> FALSE, actions |-> RateLimitActions]
    ELSE IF error_type = Member(ErrorType, "service_unavailable")
    THEN [raised |-> FALSE, actions |-> ServiceUnavailableActions]
    ELSE [raised |-> FALSE, actions |-> DefaultActions]

\* the keys of the dictionary of messages, all looked up to build it
MessageKeys ==
    {"network_error", "authentication_error", "validation_error",
     "resource_not_found", "rate_limit_error", "internal_error",
     "service_unavailable", "permission_error"}

_generate_user_message(error_type) ==
    IF \E k \in MessageKeys : Member(ErrorType, k) = AttributeError
    THEN AttributeError
    ELSE "user_message"

EnhancedErrorResponse(error_type, severity, recovery_actions, user_message) ==
    [kind |-> "error", error_type |-> error_type, severity |-> severity,
     recovery_actions |-> recovery_actions, user_message |-> user_message]

\* what a call returns when an exception leaves it
RaisedResult(exception) == [kind |-> "raised", exception |-> exception]

\* EnhancedErrorResponse.create_with_recovery; recovery_actions << >> and
\* user_message "None" are the defaults, replaced by the generated ones
create_with_recovery(error_type, severity, recovery_actions, user_message) ==
    LET acts == IF recovery_actions # << >>
                THEN [raised |-> FALSE, actions |-> recovery_actions]
                ELSE _generate_recovery_actions(error_type)
        msg == IF user_message # "None" THEN user_message
               ELSE _generate_user_message(error_type)
    IN  IF acts.raised \/ msg = AttributeError
        THEN RaisedResult(AttributeError)
        ELSE EnhancedErrorResponse(error_type, severity, acts.actions, msg)

\* handle_error_with_recovery(error, operation, session_id, config,
\* auto_recover=False) at time t: the contexts, the registry and what the
\* call returns or raises; the breaker is updated after the response is built
handle_error_with_recovery(ctxs, cbs, error, operation, session_id, t) ==
    LET operation_id == OperationId(operation, session_id)
        counted == ContextsAfterError(ctxs, operation_id)
        error_type == _classify_error(error)
        severity == IF error_type = AttributeError THEN AttributeError
                    ELSE _determine_severity(error_type,
                                             counted[operation_id].attempt_count)
        enhanced_error == IF severity = AttributeError
                          THEN RaisedResult(AttributeError)
                          ELSE create_with_recovery(error_type, severity, << >>, "None")
    IN  IF enhanced_error.kind = "raised"
        THEN [ctxs |-> counted, cbs |-> cbs, result |-> enhanced_error]
        ELSE [ctxs |-> counted,
              cbs |-> _update_circuit_breaker(cbs, operation, t),
              result |-> enhanced_error]

ContextsAfterSuccess(ctxs, operation_id) ==
    [i \in (DOMAIN ctxs) \ {operation_id} |-> ctxs[i]]

\* ------------------------------------------------------------------------
\* retry_operation, one caller: idle -> attempt -> invoking -> (sleeping ->
\* attempt ...) -> idle
\* ------------------------------------------------------------------------
NewCall(operation_name, session_id, config) ==
    [operation_name |-> operation_name, session_id |-> session_id,
     config |-> config, attempt |-> 0, delay |-> 0, sleep_start |-> NoTime,
     result |-> NoResult, op_value |-> NoResult,
     invoked |-> 0, failed |-> 0, succeeded |-> 0, rejected |-> 0]

IdleCall == NewCall("get_session", "s1", RetryConfig(1, 500, DefaultMaxDelay,
                    DefaultExponentialBase, TRUE, "exponential_backoff"))

\* variant: the loop runs one iteration more
IsFinalAttempt_late(attempt, config) == attempt = config.max_attempts

\* attempt == config.max_attempts - 1
IsFinalAttempt(attempt, config) == attempt = config.max_attempts - 1

InFlight(operation) ==
    Cardinality({c \in Callers : pc[c] # "idle" /\ call[c].operation_name = operation})

FailureCount(operation) ==
    IF operation \in DOMAIN circuit_breakers
    THEN circuit_breakers[operation].failure_count ELSE 0

\* observer of the half-open window: invocations since the breaker became
\* half_open, 0 outside that state (saturates at 3)
TrialCallsAfter(operation, cbsAfter, invokes) ==
    IF BreakerState(cbsAfter, operation) = "half_open"
    THEN IF BreakerState(circuit_breakers, operation) = "half_open"
         THEN Min(trial_calls[operation] + invokes, 3)
         ELSE invokes
    ELSE 0

\* observer of the open window: the time of the step that opened the breaker
OpenedAtAfter(operation, cbsAfter) ==
    IF BreakerState(cbsAfter, operation) = "open"
    THEN IF BreakerState(circuit_breakers, operation) = "open"
         THEN opened_at[operation]
         ELSE now
    ELSE NoTime

Observe(operation, cbsAfter, invokes) ==
    /\ trial_calls' = [trial_calls EXCEPT ![operation] =
                          TrialCallsAfter(operation, cbsAfter, invokes)]
    /\ opened_at' = [opened_at EXCEPT ![operation] = OpenedAtAfter(operation, cbsAfter)]

SessionIds == {"s1"}

retry_operation(c, operation_name, session_id, config) ==
    /\ pc[c] = "idle"
    /\ AttemptCount(operation_contexts, OperationId(operation_name, session_id))
         + InFlight(operation_name) < MaxFailures
    /\ pc' = [pc EXCEPT ![c] = "attempt"]
    /\ call' = [call EXCEPT ![c] = NewCall(operation_name, session_id, config)]
    /\ UNCHANGED <<now, circuit_breakers, operation_contexts, streak, trial_calls,
                   opened_at>>

\* the except clause of the loop body, for the exception `error`
ExceptClause(c, error, cbs, rnd, counted) ==
    LET op == call[c].operation_name
        seen == [call[c] EXCEPT !.failed = @ + (IF counted = "failed" THEN 1 ELSE 0),
                                !.rejected = @ + (IF counted = "rejected" THEN 1 ELSE 0)]
    IN  IF IsFinalAttempt(call[c].attempt, call[c].config)
        THEN LET h == handle_error_with_recovery(operation_contexts, cbs, error,
                                                 op, call[c].session_id, now)
             IN  /\ operation_contexts' = h.ctxs
                 /\ circuit_breakers' = h.cbs
                 /\ Observe(op, h.cbs, 0)
                 /\ call' = [call EXCEPT ![c] = [seen EXCEPT !.result = h.result]]
                 /\ pc' = [pc EXCEPT ![c] = "idle"]
        ELSE /\ operation_contexts' = operation_contexts
             /\ circuit_breakers' = cbs
             /\ Observe(op, cbs, 0)
             /\ call' = [call EXCEPT ![c] = [seen EXCEPT
                    !.delay = _calculate_retry_delay(call[c].attempt, call[c].config, rnd),
                    !.sleep_start = now]]
             /\ pc' = [pc EXCEPT ![c] = "sleeping"]

\* the breaker lets the attempt through: the operation is awaited
AttemptAllowed(c) ==
    /\ LET op == call[c].operation_name
           cbs == AfterAllowsRequest(circuit_breakers, op, now)
       IN  /\ circuit_breakers' = cbs
           /\ Observe(op, cbs, 1)
    /\ pc' = [pc EXCEPT ![c] = "invoking"]
    /\ call' = [call EXCEPT ![c].invoked = @ + 1]
    /\ UNCHANGED operation_contexts

\* the breaker refuses: raise Exception("Circuit breaker open for ...")
AttemptRejected(c) ==
    \E rnd \in RandomSamples :
       ExceptClause(c, "circuit_open",
                    AfterAllowsRequest(circuit_breakers, call[c].operation_name, now),
                    rnd, "rejected")

\* loop body up to the await of the operation
Attempt(c) ==
    /\ pc[c] = "attempt"
    /\ IF _circuit_breaker_allows_request(circuit_breakers, call[c].operation_name, now)
       THEN AttemptAllowed(c)
       ELSE AttemptRejected(c)
    /\ UNCHANGED <<now, streak>>

\* the awaited operation returns v
OperationReturns(c, v) ==
    /\ pc[c] = "invoking"
    /\ LET op == call[c].operation_name
           cbs == _reset_circuit_breaker(circuit_breakers, op)
       IN  /\ circuit_breakers' = cbs
           /\ Observe(op, cbs, 0)
           /\ operation_contexts' = ContextsAfterSuccess(operation_contexts,
                                        OperationId(op, call[c].session_id))
           /\ streak' = [streak EXCEPT ![op] = 0]
    /\ call' = [call EXCEPT ![c].result = [kind |-> "ok", value |-> v],
                            ![c].op_value = v,
                            ![c].succeeded = @ + 1]
    /\ pc' = [pc EXCEPT ![c] = "idle"]
    /\ UNCHANGED now

\* the awaited operation raises
OperationRaises(c, error) ==
    /\ pc[c] = "invoking"
    /\ \E rnd \in RandomSamples :
          ExceptClause(c, error, circuit_breakers, rnd, "failed")
    /\ streak' = [streak EXCEPT ![call[c].operation_name] =
                     Min(@ + 1, FailureThreshold + 1)]
    /\ UNCHANGED now

\* asyncio.sleep(delay) is over: next iteration of the loop
SleepEnds(c) ==
    /\ pc[c] = "sleeping"
    /\ (now - call[c].sleep_start) * 1000 >= call[c].delay
    /\ pc' = [pc EXCEPT ![c] = "attempt"]
    /\ call' = [call EXCEPT ![c].attempt = @ + 1, ![c].delay = 0,
                            ![c].sleep_start = NoTime]
    /\ UNCHANGED <<now, circuit_breakers, operation_contexts, streak, trial_calls,
                   opened_at>>

\* POST /system/circuit-breakers/{operation}/reset
reset_circuit_breaker(operation) ==
    /\ operation \in DOMAIN circuit_breakers
    /\ circuit_breakers[operation].failure_count > 0
    /\ LET cbs == _reset_circuit_breaker(circuit_breakers, operation)
       IN  /\ circuit_breakers' = cbs
           /\ Observe(operation, cbs, 0)
    /\ UNCHANGED <<now, operation_contexts, pc, call, streak>>

Tick ==
    /\ now + TimeStep <= MaxTime
    /\ now' = now + TimeStep
    /\ UNCHANGED <<circuit_breakers, operation_contexts, pc, call, streak, trial_calls,
                   opened_at>>

\* ------------------------------------------------------------------------
\* _calculate_retry_delay as a function of its inputs
\* ------------------------------------------------------------------------
DelayConfigs ==
    { RetryConfig(MaxDelayAttempt + 1, b, m, e, j, st) :
        b \in {500, 1000}, m \in {10000, DefaultMaxDelay},
        e \in {DefaultExponentialBase, 3}, j \in BOOLEAN,
        st \in {"exponential_backoff", "retry_with_jitter"} }

DelayInputs ==
    [attempt : 0..MaxDelayAttempt, config : DelayConfigs, rnd : {0, 500, 999}]

\* retry_operation computes the delay after the failed attempt `attempt`
CalculateDelay(i) ==
    /\ delay_in' = i
    /\ delay_out' = _calculate_retry_delay(i.attempt, i.config, i.rnd)

\* ------------------------------------------------------------------------
\* Session store (SessionManager) and the websocket message handlers
\* ------------------------------------------------------------------------
None == "None"
NoMemory == [absent |-> TRUE]
NoActivity == [absent |-> TRUE]
NoMinutes == 0
Transports == {"k1", "k2"}
TheSession == "s1"

\* the attributes of the models: the field names, never the aliases
SessionTypeConfigFields == {"type", "minutes"}
SessionSettingsFields == {"session_type", "strictness", "notify"}
TimelineEventFields == {"t", "event"}
CurrentActivityFields == {"id", "app", "media", "desc"}
SessionMemoryFields ==
    {"settings", "timeline", "current_activity", "past_contents",
     "last_claims_checked"}
TreeSummaryFields ==
    {"app_package", "app_readable_name", "media_hints", "top_nodes",
     "url_or_channel_guess", "publisher_guess", "topic_guesses", "confidence"}
FrameBundleFields ==
    {"session_id", "timestamp", "tree_summary", "ocr_text", "has_image",
     "image_ref", "audio_transcript_delta", "device_hints"}

\* variant: every name is an attribute of every model, get and the aliases
\* included, and can be assigned
HasAttr_any(fields, name) == TRUE

\* getattr(model, name) does not raise AttributeError; setattr(model, name, _)
\* does not raise ValueError
HasAttr(fields, name) == name \in fields

SessionTypeConfig(type, minutes) == [type |-> type, minutes |-> minutes]

NotificationSettings(details, links) == [details |-> details, links |-> links]

\* strictness in tenths
SessionSettings(session_type, strictness, notify) ==
    [session_type |-> session_type, strictness |-> strictness, notify |-> notify]

TimelineEvent(t, event) == [t |-> t, event |-> event]

SessionMemory(settings, timeline, current_activity, past_contents, last_claims_checked) ==
    [settings |-> settings, timeline |-> timeline,
     current_activity |-> current_activity, past_contents |-> past_contents,
     last_claims_checked |-> last_claims_checked]

\* the settings_data of POST /sessions: the default, {"type": "MANUAL"}
SettingsData == { [sessionType |-> SessionTypeConfig("MANUAL", NoMinutes)] }

\* SessionMemory as _create_session_operation builds it from settings_data
NewSessionMemory(settings_data) ==
    SessionMemory(SessionSettings(settings_data.sessionType, 5,
                                  NotificationSettings(TRUE, TRUE)),
                  << >>, NoActivity, << >>, << >>)

\* the Manager's reply for a frame: the memory it was shown, with the frame's
\* event appended to the timeline
UpdatedMemory(memory, frame) ==
    [memory EXCEPT !.timeline = Append(@, TimelineEvent("mm:ss", frame))]

\* sent, wrote and direct are observers of the handling of one message: the
\* kinds of message sent to the client, whether the store was written, and
\* the external capabilities called outside retry_operation
IdleHandler ==
    [pc |-> "idle", msg |-> None, frame |-> 0, attempt |-> 0,
     session_memory |-> NoMemory, updated_memory |-> NoMemory,
     end_session |-> FALSE, notify |-> FALSE,
     sent |-> {}, wrote |-> FALSE, direct |-> {}]

\* a message to the client by its type and what tells it from the others of
\* the type
Message(type, details) == [type |-> type, details |-> details]

\* the handler is over: its locals are gone, what the client was sent stays
\* until the next message of the transport
Done(h, kinds) == [IdleHandler EXCEPT !.sent = h.sent \cup kinds]

\* RetryConfig(max_attempts=2, base_delay=0.5) of get_session
GetSessionConfig ==
    RetryConfig(2, 500, DefaultMaxDelay, DefaultExponentialBase, TRUE,
                "exponential_backoff")

\* what _get_session_operation returns when the read of the durable store
\* does not raise: the stored value, else the in-process one, else None
StoredMemory(session_id) ==
    IF redis_client /\ redis[session_id] # NoMemory THEN redis[session_id]
    ELSE sessions[session_id]

\* _store_session: the durable store if it is there and the write succeeds,
\* else the in-process dictionary
_store_session(session_id, session_memory, redis_ok) ==
    IF redis_client /\ redis_ok
    THEN /\ redis' = [redis EXCEPT ![session_id] = session_memory]
         /\ sessions' = sessions
    ELSE /\ sessions' = [sessions EXCEPT ![session_id] = session_memory]
         /\ redis' = redis

\* SessionManager.delete_session: errors of the durable delete are swallowed
delete_session(session_id, redis_ok) ==
    /\ redis' = IF redis_client /\ redis_ok
                THEN [redis EXCEPT ![session_id] = NoMemory] ELSE redis
    /\ sessions' = [sessions EXCEPT ![session_id] = NoMemory]

\* the durable store is there and the operation on it raises
StoreFault(redis_ok) == redis_client /\ ~redis_ok

Exists(session_id) ==
    sessions[session_id] # NoMemory \/ (redis_client /\ redis[session_id] # NoMemory)

\* the id was handed out by POST /sessions
Created(session_id) == ended \/ Exists(session_id)

GetSessionId == OperationId("get_session", TheSession)

\* POST /sessions with valid settings: uuid4 gives an id never used before;
\* create_session runs _create_session_operation through retry_operation,
\* whose first attempt stores the memory and returns
CreateSession(settings_data, redis_ok) ==
    /\ ~Created(TheSession)
    /\ _circuit_breaker_allows_request(circuit_breakers, "create_session", now)
    /\ circuit_breakers' = _reset_circuit_breaker(
            AfterAllowsRequest(circuit_breakers, "create_session", now),
            "create_session")
    /\ operation_contexts' = ContextsAfterSuccess(operation_contexts,
                                 OperationId("create_session", TheSession))
    /\ _store_session(TheSession, NewSessionMemory(settings_data), redis_ok)
    /\ faulted' = (faulted \/ StoreFault(redis_ok))
    /\ UNCHANGED <<now, redis_client, last_cleanup, handler, received, ended,
                   committed>>

\* a frame_bundle message arrives on transport k
ReceiveFrame(k) ==
    /\ handler[k].pc = "idle"
    /\ Created(TheSession)
    /\ Len(received) < MaxFrames
    /\ AttemptCount(operation_contexts, GetSessionId) < MaxFailures
    /\ received' = Append(received, Len(received) + 1)
    /\ handler' = [handler EXCEPT ![k] = [IdleHandler EXCEPT !.pc = "get",
                       !.msg = "frame_bundle", !.frame = Len(received) + 1]]
    /\ UNCHANGED <<now, circuit_breakers, operation_contexts, redis_client,
                   redis, sessions, last_cleanup, ended, committed, faulted>>

\* a session_start message arrives on transport k
ReceiveSessionStart(k) ==
    /\ handler[k].pc = "idle"
    /\ Created(TheSession)
    /\ AttemptCount(operation_contexts, GetSessionId) < MaxFailures
    /\ handler' = [handler EXCEPT ![k] = [IdleHandler EXCEPT !.pc = "get",
                       !.msg = "session_start"]]
    /\ UNCHANGED <<now, circuit_breakers, operation_contexts, redis_client,
                   redis, sessions, last_cleanup, received, ended, committed,
                   faulted>>

\* get_session, an attempt the breaker lets through and that finds the
\* memory; session_start answers already_active
GetFound(k) ==
    /\ StoredMemory(TheSession) # NoMemory
    /\ circuit_breakers' = _reset_circuit_breaker(
            AfterAllowsRequest(circuit_breakers, "get_session", now), "get_session")
    /\ operation_contexts' = ContextsAfterSuccess(operation_contexts, GetSessionId)
    /\ handler' = [handler EXCEPT ![k] =
          IF handler[k].msg = "frame_bundle"
          THEN [@ EXCEPT !.pc = "manager", !.session_memory = StoredMemory(TheSession)]
          ELSE Done(@, {Message("session_status", "already_active")})]
    /\ UNCHANGED <<redis, sessions, ended, committed, faulted>>

\* the except clause of retry_operation inside get_session. On the final
\* attempt handle_error_with_recovery is called; what it raises is caught by
\* the except clause of get_session, which calls it again with that
\* exception; what the second call raises leaves get_session and is caught by
\* the handler, which sends an error message (the second call has
\* auto_recover=True, which matters only past the point where it raises). If
\* get_session returns an error result a frame ends with an error message and
\* session_start creates.
GetExcept(k, cbs, error) ==
    IF IsFinalAttempt(handler[k].attempt, GetSessionConfig)
    THEN LET h1 == handle_error_with_recovery(operation_contexts, cbs, error,
                                              "get_session", TheSession, now)
             h2 == IF h1.result.kind = "raised"
                   THEN handle_error_with_recovery(h1.ctxs, h1.cbs, AttributeError,
                                                   "get_session", TheSession, now)
                   ELSE h1
         IN  /\ operation_contexts' = h2.ctxs
             /\ circuit_breakers' = h2.cbs
             /\ IF h2.result.kind = "raised"
                THEN /\ handler' = [handler EXCEPT ![k] =
                           Done(@, {Message("error", AttributeError)})]
                     /\ UNCHANGED <<redis, sessions, ended, committed>>
                ELSE IF handler[k].msg = "frame_bundle"
                THEN /\ handler' = [handler EXCEPT ![k] =
                           Done(@, {Message("error", "session_not_found")})]
                     /\ UNCHANGED <<redis, sessions, ended, committed>>
                ELSE /\ \E sd \in SettingsData, ok \in BOOLEAN :
                           _store_session(TheSession, NewSessionMemory(sd), ok)
                     /\ ended' = FALSE
                     /\ committed' = {}
                     /\ handler' = [handler EXCEPT ![k] =
                           Done([@ EXCEPT !.wrote = TRUE],
                                {Message("session_status", "started")})]
    ELSE /\ operation_contexts' = operation_contexts
         /\ circuit_breakers' = cbs
         /\ handler' = [handler EXCEPT ![k] = [@ EXCEPT !.pc = "get_sleep"]]
         /\ UNCHANGED <<redis, sessions, ended, committed>>

\* an attempt that raises: the session is not found, or the durable read fails
GetRaises(k) ==
    \E error \in {"not_found", "network"} :
       /\ IF error = "not_found" THEN StoredMemory(TheSession) = NoMemory
          ELSE redis_client
       /\ faulted' = (faulted \/ error = "network")
       /\ GetExcept(k, AfterAllowsRequest(circuit_breakers, "get_session", now), error)

\* an attempt the breaker refuses
GetRejected(k) ==
    /\ GetExcept(k, circuit_breakers, "circuit_open")
    /\ UNCHANGED faulted

\* one iteration of the loop of retry_operation inside get_session
Get(k) ==
    /\ handler[k].pc = "get"
    /\ IF _circuit_breaker_allows_request(circuit_breakers, "get_session", now)
       THEN GetFound(k) \/ GetRaises(k)
       ELSE GetRejected(k)
    /\ UNCHANGED <<now, redis_client, last_cleanup, received>>

\* asyncio.sleep(delay) of that loop is over, after whatever time it takes
GetSleepEnds(k) ==
    /\ handler[k].pc = "get_sleep"
    /\ handler' = [handler EXCEPT ![k] = [@ EXCEPT !.pc = "get", !.attempt = @ + 1]]
    /\ UNCHANGED <<now, circuit_breakers, operation_contexts, redis_client,
                   redis, sessions, last_cleanup, received, ended, committed,
                   faulted>>

\* orchestrator.process_frame returns the Manager's response; the model is
\* invoked by BedrockService.invoke_model, called directly
ManagerReplies(k, end_session, notify) ==
    /\ handler[k].pc = "manager"
    /\ handler' = [handler EXCEPT ![k] = [@ EXCEPT !.pc = "update",
          !.updated_memory = UpdatedMemory(handler[k].session_memory, handler[k].frame),
          !.end_session = end_session, !.notify = notify,
          !.direct = @ \cup {"model_invocation"}]]
    /\ UNCHANGED <<now, circuit_breakers, operation_contexts, redis_client,
                   redis, sessions, last_cleanup, received, ended, committed,
                   faulted>>

\* variant: the memory of the reply that could not be parsed is stored
ManagerRaises_stored(k) ==
    /\ handler[k].pc = "manager"
    /\ _store_session(TheSession,
                      UpdatedMemory(handler[k].session_memory, handler[k].frame), TRUE)
    /\ handler' = [handler EXCEPT ![k] =
          Done([@ EXCEPT !.direct = @ \cup {"model_invocation"}, !.wrote = TRUE],
               {Message("error", "Failed to parse manager response")})]
    /\ UNCHANGED <<now, circuit_breakers, operation_contexts, redis_client,
                   last_cleanup, received, ended, committed, faulted>>

\* the Manager's reply cannot be parsed: ManagerAgent.process_frame raises,
\* the exception leaves orchestrator.process_frame and the handler's except
\* clause sends an error message
ManagerRaises(k) ==
    /\ handler[k].pc = "manager"
    /\ handler' = [handler EXCEPT ![k] =
          Done([@ EXCEPT !.direct = @ \cup {"model_invocation"}],
               {Message("error", "Failed to parse manager response")})]
    /\ UNCHANGED <<now, circuit_breakers, operation_contexts, redis_client,
                   redis, sessions, last_cleanup, received, ended, committed,
                   faulted>>

\* update_session, then the notifications are sent
UpdateSession(k, redis_ok) ==
    /\ handler[k].pc = "update"
    /\ _store_session(TheSession, handler[k].updated_memory, redis_ok)
    /\ committed' = committed \cup {handler[k].frame}
    /\ faulted' = (faulted \/ StoreFault(redis_ok))
    /\ handler' = [handler EXCEPT ![k] =
          LET h == [@ EXCEPT !.wrote = TRUE,
                             !.direct = @ \cup {"store_write"},
                             !.sent = @ \cup (IF handler[k].notify
                                              THEN {Message("notification", None)}
                                              ELSE {})]
          IN  IF handler[k].end_session THEN [h EXCEPT !.pc = "end"]
              ELSE Done(h, {})]
    /\ UNCHANGED <<now, circuit_breakers, operation_contexts, redis_client,
                   last_cleanup, received, ended>>

\* the session_end message is sent and the session deleted
EndSession(k, redis_ok) ==
    /\ handler[k].pc = "end"
    /\ delete_session(TheSession, redis_ok)
    /\ ended' = TRUE
    /\ committed' = {}
    /\ faulted' = (faulted \/ StoreFault(redis_ok))
    /\ handler' = [handler EXCEPT ![k] =
          Done([@ EXCEPT !.wrote = TRUE, !.direct = @ \cup {"store_delete"}],
               {Message("session_end", "Activity-based session end")})]
    /\ UNCHANGED <<now, circuit_breakers, operation_contexts, redis_client,
                   last_cleanup, received>>

\* handle_session_stop
SessionStop(k, redis_ok) ==
    /\ handler[k].pc = "idle"
    /\ Created(TheSession)
    /\ delete_session(TheSession, redis_ok)
    /\ ended' = TRUE
    /\ committed' = {}
    /\ faulted' = (faulted \/ StoreFault(redis_ok))
    /\ handler' = [handler EXCEPT ![k] =
          Done([IdleHandler EXCEPT !.wrote = TRUE, !.direct = {"store_delete"}],
               {Message("session_end", "Client requested stop")})]
    /\ UNCHANGED <<now, circuit_breakers, operation_contexts, redis_client,
                   last_cleanup, received>>

\* DELETE /sessions/{session_id}
DeleteEndpoint(redis_ok) ==
    /\ Created(TheSession)
    /\ delete_session(TheSession, redis_ok)
    /\ ended' = TRUE
    /\ committed' = {}
    /\ faulted' = (faulted \/ StoreFault(redis_ok))
    /\ UNCHANGED <<now, circuit_breakers, operation_contexts, redis_client,
                   last_cleanup, handler, received>>

\* ------------------------------------------------------------------------
\* cleanup_expired_sessions and should_end_session
\* ------------------------------------------------------------------------
CleanupInterval == 300

\* d.get(key) is not None
Has(d, key) == key \in DOMAIN d

\* d.get(key, default) for numbers
DictGet(d, key, default) == IF key \in DOMAIN d THEN d[key] ELSE default

\* the body of the loop of cleanup_expired_sessions for one memory at
\* current_time: TRUE when the session id is appended to expired_sessions,
\* which the except clause does for every exception of the try block
Expired(memory, current_time) ==
    IF ~HasAttr(SessionSettingsFields, "sessionType") THEN TRUE
    ELSE LET cfg == memory.settings.session_type
             timed == /\ cfg.type = "TIME"
                      /\ cfg.minutes # NoMinutes
                      /\ memory.timeline # << >>
             raises == /\ memory.timeline # << >>
                       /\ ~HasAttr(TimelineEventFields, "get")
             first == memory.timeline[1]
             last == memory.timeline[Len(memory.timeline)]
         IN  \/ raises
             \/ /\ timed
                /\ Has(first, "timestamp")
                /\ current_time - first.timestamp > cfg.minutes * 60
             \/ /\ memory.timeline # << >>
                /\ current_time - DictGet(last, "timestamp", current_time) > 24 * 3600

\* periodic_cleanup: one sweep over the in-process dictionary every 300 s;
\* the expired sessions are deleted from both stores
cleanup_expired_sessions(redis_ok) ==
    /\ last_cleanup = NoTime \/ now - last_cleanup >= CleanupInterval
    /\ LET expired_sessions ==
              {s \in SessionIds : sessions[s] # NoMemory /\ Expired(sessions[s], now)}
       IN  /\ redis' = [s \in SessionIds |->
                          IF s \in expired_sessions /\ redis_client /\ redis_ok
                          THEN NoMemory ELSE redis[s]]
           /\ sessions' = [s \in SessionIds |->
                          IF s \in expired_sessions THEN NoMemory ELSE sessions[s]]
           /\ ended' = (ended \/ TheSession \in expired_sessions)
           /\ committed' = IF TheSession \in expired_sessions THEN {} ELSE committed
           /\ faulted' = (faulted \/ (expired_sessions # {} /\ StoreFault(redis_ok)))
    /\ last_cleanup' = now
    /\ UNCHANGED <<now, circuit_breakers, operation_contexts, redis_client,
                   handler, received>>

\* what a call of should_end_session leaves: raised, or the value returned,
\* and the memory object after the call
EndResult(raised, value, memory) ==
    [raised |-> raised, value |-> value, memory |-> memory]

\* the ACTIVITY branch, lines 270-309; an exception inside the try block is
\* caught and the function returns False at line 311
ActivityBranch(session_memory, frame_bundle) ==
    LET current_time == frame_bundle.timestamp
        activity == session_memory.current_activity
        recent_timeline ==
            { i \in 1..Len(session_memory.timeline) :
                 /\ i > Len(session_memory.timeline) - 10
                 /\ current_time - DictGet(session_memory.timeline[i], "timestamp",
                                           current_time) <= 90 }
        current_app == frame_bundle.tree_summary.app_package
        caught == \/ ~HasAttr(TimelineEventFields, "get")
                  \/ ~HasAttr(FrameBundleFields, "treeSummary")
                  \/ ~HasAttr(TreeSummaryFields, "appPackage")
                  \/ ~HasAttr(CurrentActivityFields, "get")
        changed == [app |-> current_app, start_time |-> current_time,
                    fact_checkable_content |-> FALSE]
        has_recent_content ==
            \E i \in recent_timeline :
               /\ current_time - DictGet(session_memory.timeline[i], "timestamp",
                                         current_time) <= 60
               /\ Has(session_memory.timeline[i], "has_fact_checkable_content")
               /\ session_memory.timeline[i].has_fact_checkable_content
    IN  IF activity = NoActivity \/ session_memory.timeline = << >>
        THEN EndResult(FALSE, FALSE, session_memory)
        ELSE IF caught THEN EndResult(FALSE, FALSE, session_memory)
        ELSE IF activity.app # current_app
        THEN IF ~HasAttr(SessionMemoryFields, "currentActivity")
             THEN EndResult(FALSE, FALSE, session_memory)
             ELSE EndResult(FALSE, FALSE,
                            [session_memory EXCEPT !.current_activity = changed])
        ELSE IF /\ Has(activity, "start_time")
                /\ current_time - activity.start_time >= 90
                /\ ~has_recent_content
        THEN EndResult(FALSE, TRUE, session_memory)
        ELSE EndResult(FALSE, FALSE, session_memory)

\* SessionManager.should_end_session(session_memory, frame_bundle); times in
\* seconds. Lines 245 and 270 are outside the try blocks: an AttributeError
\* there leaves the function.
should_end_session(session_memory, frame_bundle) ==
    LET settings == session_memory.settings
        cfg == settings.session_type
        first_event == session_memory.timeline[1]
    IN  IF ~HasAttr(SessionSettingsFields, "sessionType")
        THEN EndResult(TRUE, FALSE, session_memory)
        ELSE IF cfg.type = "MANUAL" THEN EndResult(FALSE, FALSE, session_memory)
        ELSE IF cfg.type = "TIME"
        THEN IF /\ cfg.minutes # NoMinutes
                /\ session_memory.timeline # << >>
                /\ HasAttr(TimelineEventFields, "get")
                /\ Has(first_event, "timestamp")
                /\ frame_bundle.timestamp - first_event.timestamp >= cfg.minutes * 60
             THEN EndResult(FALSE, TRUE, session_memory)
             ELSE EndResult(FALSE, FALSE, session_memory)
        ELSE IF ~HasAttr(SessionMemoryFields, "currentActivity")
        THEN EndResult(TRUE, FALSE, session_memory)
        ELSE ActivityBranch(session_memory, frame_bundle)

\* the inputs: memories as the store holds them, whose timeline entries are
\* TimelineEvent(t, event) and whose current activity is a CurrentActivity
\* or None, and frames some seconds after the first timeline entry
Policies ==
    { SessionTypeConfig("MANUAL", NoMinutes), SessionTypeConfig("TIME", NoMinutes),
      SessionTypeConfig("TIME", 60), SessionTypeConfig("ACTIVITY", NoMinutes) }

Apps == {"app_a", "app_b"}

RECURSIVE TimelineOf(_)
TimelineOf(n) ==
    IF n = 0 THEN << >> ELSE Append(TimelineOf(n - 1), TimelineEvent("mm:ss", n))

CurrentActivity(id, app, media, desc) ==
    [id |-> id, app |-> app, media |-> media, desc |-> desc]

EndMemories ==
    { SessionMemory(SessionSettings(p, 5, NotificationSettings(TRUE, TRUE)),
                    TimelineOf(n), a, << >>, << >>) :
        p \in Policies, n \in 0..MaxFrames,
        a \in {NoActivity} \cup {CurrentActivity("content_1", x, "text", "d") : x \in Apps} }

\* seconds after the session start: 59 and 61 minutes, and 90 s
FrameTimes == {90, 59 * 60, 61 * 60}

EndFrames ==
    { [timestamp |-> t, tree_summary |-> [app_package |-> x]] :
        t \in FrameTimes, x \in Apps }

\* a call of should_end_session on a memory of the inputs or on the memory
\* object the previous call left
ShouldEndSession(m, f) ==
    /\ end_in' = [memory |-> m, frame |-> f]
    /\ end_out' = should_end_session(m, f)

\* ------------------------------------------------------------------------
\* _attempt_automatic_recovery and execute_recovery_action
\* ------------------------------------------------------------------------
ActionTypes ==
    {"retry_with_backoff", "check_connectivity", "switch_to_offline_mode",
     "refresh_credentials", "re_authenticate", "exponential_backoff",
     "health_check", "fallback_service", "manual_retry"}

\* execute_recovery_action(action, context): what the action reports;
\* connectivity is whether the probe of _check_connectivity answers 200
execute_recovery_action(action_type, connectivity) ==
    CASE action_type = "retry_with_backoff" -> TRUE
      [] action_type = "check_connectivity" -> connectivity
      [] action_type = "switch_to_offline_mode" -> TRUE
      [] action_type = "refresh_credentials" -> TRUE
      [] action_type = "health_check" -> TRUE
      [] action_type = "fallback_service" -> TRUE
      [] action_type = "exponential_backoff" -> TRUE
      [] OTHER -> FALSE

\* the loop of _attempt_automatic_recovery from action i on: the actions
\* executed in order, recovery_actions_taken, and the outcome: None when the
\* loop ends, else what building the recovery response gives
RECURSIVE RecoveryLoop(_, _, _, _, _)
RecoveryLoop(actions, i, taken, executed, connectivity) ==
    IF i > Len(actions)
    THEN [executed |-> executed, taken |-> taken, result |-> [kind |-> "none"]]
    ELSE LET action == actions[i] IN
         IF action.auto_executable /\ action.action_type \notin taken
         THEN IF execute_recovery_action(action.action_type, connectivity)
              THEN [executed |-> Append(executed, action.action_type),
                    taken |-> taken \cup {action.action_type},
                    result |->
                       IF Member(ErrorSeverity, "info") = AttributeError
                       THEN RaisedResult(AttributeError)
                       ELSE create_with_recovery(Member(ErrorType, "internal_error"),
                                                 "info", << >>, "resolved")]
              ELSE RecoveryLoop(actions, i + 1, taken \cup {action.action_type},
                                Append(executed, action.action_type), connectivity)
         ELSE RecoveryLoop(actions, i + 1, taken, executed, connectivity)

\* seconds slept by the actions executed: min(60, 2 ** (attempt_count - 1)) by
\* retry_with_backoff and by exponential_backoff
RECURSIVE Slept(_, _)
Slept(executed, attempt_count) ==
    IF executed = << >> THEN 0
    ELSE (IF Head(executed) \in {"retry_with_backoff", "exponential_backoff"}
          THEN Min(60, Pow(2, attempt_count - 1)) ELSE 0)
         + Slept(Tail(executed), attempt_count)

_attempt_automatic_recovery(error, context, connectivity) ==
    LET r == RecoveryLoop(error.recovery_actions, 1, context.recovery_actions_taken,
                          << >>, connectivity)
    IN  [executed |-> r.executed, taken |-> r.taken, result |-> r.result,
         slept |-> Slept(r.executed, context.attempt_count)]

\* the error responses by their menus of recovery actions, and the contexts
\* by the actions already taken
RecoveryMenus ==
    {NetworkActions, AuthenticationActions, RateLimitActions,
     ServiceUnavailableActions, DefaultActions}

MenuTypes(menu) == { menu[j].action_type : j \in 1..Len(menu) }

RecoveryInputs ==
    UNION { { [error |-> [recovery_actions |-> menu],
               context |-> [recovery_actions_taken |-> taken, attempt_count |-> n],
               connectivity |-> c] :
                taken \in SUBSET MenuTypes(menu), n \in 1..MaxAttempts,
                c \in BOOLEAN } :
            menu \in RecoveryMenus }

AttemptRecovery(i) ==
    /\ rec_in' = i
    /\ rec_out' = _attempt_automatic_recovery(i.error, i.context, i.connectivity)

\* ------------------------------------------------------------------------
\* MediaAgent.apply_strictness_filter
\* Strictness is in tenths (0..10 for 0.0..1.0), confidence in hundredths.
\* ------------------------------------------------------------------------
STRICTNESS_THRESHOLDS ==
    (0 :> [min_confidence |-> 90, min_sources |-> 1, tier_c_allowed |-> FALSE]) @@
    (2 :> [min_confidence |-> 80, min_sources |-> 1, tier_c_allowed |-> FALSE]) @@
    (4 :> [min_confidence |-> 75, min_sources |-> 1, tier_c_allowed |-> FALSE]) @@
    (5 :> [min_confidence |-> 70, min_sources |-> 1, tier_c_allowed |-> TRUE]) @@
    (6 :> [min_confidence |-> 65, min_sources |-> 1, tier_c_allowed |-> TRUE]) @@
    (8 :> [min_confidence |-> 60, min_sources |-> 1, tier_c_allowed |-> TRUE]) @@
    (10 :> [min_confidence |-> 50, min_sources |-> 0, tier_c_allowed |-> TRUE])

\* STRICTNESS_THRESHOLDS.get(strictness, STRICTNESS_THRESHOLDS[0.5])
Thresholds(strictness) ==
    IF strictness \in DOMAIN STRICTNESS_THRESHOLDS
    THEN STRICTNESS_THRESHOLDS[strictness]
    ELSE STRICTNESS_THRESHOLDS[5]

\* sum(1 for source in sources if source.tier == tier)
TierCount(sources, tier) ==
    Cardinality({ i \in 1..Len(sources) : sources[i].tier = tier })

\* variant: tier C counts whatever the row of the table allows
_validate_sources_any_tier(sources, thresholds) ==
    IF thresholds.min_sources = 0
    THEN TRUE
    ELSE IF TierCount(sources, "A") >= 1 \/ TierCount(sources, "B") >= 1
         THEN TRUE
         ELSE TierCount(sources, "C") >= thresholds.min_sources

_validate_sources(sources, thresholds) ==
    IF thresholds.min_sources = 0
    THEN TRUE
    ELSE IF TierCount(sources, "A") >= 1 \/ TierCount(sources, "B") >= 1
         THEN TRUE
         ELSE IF thresholds.tier_c_allowed
                 /\ TierCount(sources, "C") >= thresholds.min_sources
              THEN TRUE
              ELSE FALSE

Source(url, tier) == [url |-> url, tier |-> tier]

Claim(text, confidence, sources) ==
    [text |-> text, confidence |-> confidence, sources |-> sources]

FactCheckResult(claims, notes, summary, sources) ==
    [claims |-> claims, notes |-> notes, summary |-> summary, sources |-> sources]

apply_strictness_filter(fact_check_result, strictness) ==
    LET thresholds == Thresholds(strictness)
        Keep(claim) ==
            /\ claim.confidence >= thresholds.min_confidence
            /\ _validate_sources(claim.sources, thresholds)
    IN  FactCheckResult(SelectSeq(fact_check_result.claims, Keep),
                        fact_check_result.notes,
                        fact_check_result.summary,
                        fact_check_result.sources)

\* the strictness of SessionSettings, ge=0.0, le=1.0
StrictnessLevels == 0..10
Confidences == {50, 70, 72, 90}
SourceLists ==
    {<< >>, <<Source("u1", "A")>>, <<Source("u3", "C")>>,
     <<Source("u2", "B"), Source("u3", "C")>>}
Claims == { Claim("claim", c, l) : c \in Confidences, l \in SourceLists }
ClaimLists == UNION { [1..n -> Claims] : n \in 0..MaxClaims }

FilterInputs ==
    { [result |-> FactCheckResult(cs, "notes", "summary", <<Source("u1", "A")>>),
       strictness |-> s] : cs \in ClaimLists, s \in StrictnessLevels }

NotFiltered == [called |-> FALSE]

\* the call of apply_strictness_filter at the end of a fact_check
ApplyFilter ==
    /\ filter_out = NotFiltered
    /\ filter_out' = apply_strictness_filter(filter_in.result, filter_in.strictness)
    /\ UNCHANGED filter_in

\* ------------------------------------------------------------------------
\* The Manager's reply, routing validation, dispatch and synthesis
\* ------------------------------------------------------------------------
MediaType == {"text", "text+image", "short-video", "long-video", "audio"}

\* what the route of a reply may read
Routes == MediaType \cup {"none", "other"}

\* a key the JSON object does not have, an attribute the object does not have
Absent == "<absent>"

\* agentContext is missing or null
NoContext == [absent |-> TRUE]

\* the agentContext object of a reply; context and ocrText are there
ContextData ==
    { [contextType |-> t, imageRef |-> i, transcriptDelta |-> d] :
        t \in {Absent, "text", "text_image", "video"},
        i \in {Absent, "", "img"},
        d \in {Absent, "", "words"} }

AgentContextFields == {"context_type", "context", "ocr_text", "hints"}

FieldsOf(class) ==
    CASE class = "AgentContext" -> AgentContextFields
      [] class = "TextImageAgentContext" -> AgentContextFields \cup {"image_ref"}
      [] class = "VideoAgentContext" -> AgentContextFields \cup {"transcript_delta"}

NotificationPayloadFields ==
    {"color", "short_text", "details", "sources", "confidence", "severity",
     "should_notify"}

\* Class(**agent_context_data): the keys that are no field of the class are
\* ignored
Context(class, data) ==
    [class |-> class,
     context_type |-> data.contextType,
     image_ref |-> IF "image_ref" \in FieldsOf(class) THEN data.imageRef ELSE Absent,
     transcript_delta |->
        IF "transcript_delta" \in FieldsOf(class) THEN data.transcriptDelta ELSE Absent]

Ok(value) == [raised |-> FALSE, value |-> value]
Fail == [raised |-> TRUE]

_validate_and_construct_agent_context(route, agent_context_data) ==
    IF route = "text+image"
    THEN LET data == [agent_context_data EXCEPT !.contextType = "text_image"]
         IN  IF data.imageRef = Absent
             THEN Fail
             ELSE Ok(Context("TextImageAgentContext", data))
    ELSE IF route \in {"short-video", "long-video"}
    THEN LET data == [agent_context_data EXCEPT !.contextType = "video"]
         IN  IF data.transcriptDelta = Absent
             THEN Fail
             ELSE Ok(Context("VideoAgentContext", data))
    ELSE IF route = "text"
    THEN LET data == [agent_context_data EXCEPT !.contextType = "text"]
         IN  Ok(Context("AgentContext", data))
    ELSE Fail

NotificationPayload(color, short_text, details, sources) ==
    [color |-> color, short_text |-> short_text, details |-> details,
     sources |-> sources]

ManagerResponse(route, agent_context, notifications) ==
    [route |-> route, agent_context |-> agent_context,
     notifications |-> notifications]

\* ManagerAgent.process_frame from the parsed reply on
ManagerAgent_process_frame(result_json) ==
    LET validated ==
            IF result_json.agentContext # NoContext
            THEN _validate_and_construct_agent_context(result_json.route,
                                                       result_json.agentContext)
            ELSE Ok(NoContext)
    IN  IF validated.raised
        THEN Fail
        ELSE IF result_json.route \notin MediaType \cup {"none"}
        THEN Fail
        ELSE Ok(ManagerResponse(result_json.route, validated.value,
                                result_json.notifications))

\* what _invoke_with_tools returns when the model answers
CheckerResult ==
    FactCheckResult(<<Claim("claim", 90, <<Source("u1", "A")>>),
                      Claim("claim", 50, <<Source("u3", "C")>>)>>,
                    "notes", "summary", <<Source("u1", "A")>>)

\* isinstance(agent_context, AgentContext) holds for the subclasses too
IsInstance(agent_context, class) ==
    \/ agent_context.class = class
    \/ class = "AgentContext"

\* fact_check of TextAgent, TextImageAgent and VideoAgent; outcome is what
\* the model invocation does
fact_check(agent, agent_context, strictness, outcome) ==
    LET accepted ==
            CASE agent = "text_agent" ->
                    /\ IsInstance(agent_context, "AgentContext")
                    /\ agent_context.context_type = "text"
              [] agent = "text_image_agent" ->
                    /\ IsInstance(agent_context, "TextImageAgentContext")
                    /\ agent_context.context_type = "text_image"
                    /\ agent_context.image_ref # ""
              [] agent = "video_agent" ->
                    /\ IsInstance(agent_context, "VideoAgentContext")
                    /\ agent_context.context_type = "video"
                    /\ agent_context.transcript_delta # ""
    IN  IF ~accepted
        THEN Fail
        ELSE IF outcome = "raises"
        THEN Fail
        ELSE Ok(apply_strictness_filter(CheckerResult, strictness))

RECURSIVE FirstYellow(_, _)
\* the first notification from position i on whose color is yellow, 0 if none
FirstYellow(notifications, i) ==
    IF i > Len(notifications)
    THEN 0
    ELSE IF notifications[i].color = "yellow"
         THEN i
         ELSE FirstYellow(notifications, i + 1)

\* the loop of lines 627-630 run to its end
Upgraded(notifications) ==
    [i \in 1..Len(notifications) |->
        IF notifications[i].color = "yellow"
        THEN [notifications[i] EXCEPT !.color = "red",
                                      !.short_text = <<"warning">> \o @]
        ELSE notifications[i]]

\* lines 633-640
WithFactCheck(notifications, fact_check_result) ==
    IF notifications = << >>
    THEN notifications
    ELSE [notifications EXCEPT
            ![1] = [@ EXCEPT
                      !.details = IF fact_check_result.summary # ""
                                  THEN @ \o <<fact_check_result.summary>>
                                  ELSE @,
                      !.sources = @ \o fact_check_result.sources]]

SynthesisOutcomes == {"raises", "no_response", "plain", "false"}

\* step 3 of AgentOrchestrator.process_frame on the notifications of the
\* Manager's response: the notifications it leaves and whether its except
\* clause ran
Synthesis(notifications, fact_check_result, synthesis) ==
    IF synthesis = "raises"
    THEN [failed |-> TRUE, notifications |-> notifications]
    ELSE IF synthesis = "no_response"
    THEN [failed |-> FALSE, notifications |-> notifications]
    ELSE LET y == FirstYellow(notifications, 1)
         IN  IF synthesis = "false" /\ y # 0
             THEN IF HasAttr(NotificationPayloadFields, "shortText")
                  THEN [failed |-> FALSE,
                        notifications |->
                           WithFactCheck(Upgraded(notifications), fact_check_result)]
                  ELSE [failed |-> TRUE,
                        notifications |->
                           [notifications EXCEPT ![y].color = "red"]]
             ELSE [failed |-> FALSE,
                   notifications |-> WithFactCheck(notifications, fact_check_result)]

NoChecker == [agent |-> "none"]

AgentFor(route) ==
    CASE route = "text" -> "text_agent"
      [] route = "text+image" -> "text_image_agent"
      [] route \in {"short-video", "long-video"} -> "video_agent"
      [] OTHER -> "none"

\* AgentOrchestrator.process_frame: the response, the Checker call made and
\* which of the two except clauses ran
AgentOrchestrator_process_frame(input) ==
    LET manager == ManagerAgent_process_frame(input.reply)
    IN  IF manager.raised
        THEN [raised |-> TRUE, checker |-> NoChecker, calls |-> 0,
              checker_raised |-> FALSE, synthesis_failed |-> FALSE]
        ELSE LET manager_response == manager.value
                 agent == AgentFor(manager_response.route)
             IN  IF /\ manager_response.route # "none"
                    /\ manager_response.agent_context # NoContext
                    /\ agent # "none"
                 THEN LET checked == fact_check(agent, manager_response.agent_context,
                                                input.strictness, input.checker)
                          call_made == [agent |-> agent,
                                        agent_context |-> manager_response.agent_context,
                                        strictness |-> input.strictness]
                      IN  IF checked.raised
                          THEN [raised |-> FALSE, response |-> manager_response,
                                checker |-> call_made, calls |-> 1,
                                checker_raised |-> TRUE, synthesis_failed |-> FALSE]
                          ELSE LET syn == Synthesis(manager_response.notifications,
                                                    checked.value, input.synthesis)
                               IN  [raised |-> FALSE,
                                    response |-> [manager_response EXCEPT
                                                    !.notifications = syn.notifications],
                                    checker |-> call_made, calls |-> 1,
                                    checker_raised |-> FALSE,
                                    synthesis_failed |-> syn.failed]
                 ELSE [raised |-> FALSE, response |-> manager_response,
                       checker |-> NoChecker, calls |-> 0,
                       checker_raised |-> FALSE, synthesis_failed |-> FALSE]

\* routers/fact_check.py: ValueError is raised
_validate_agent_context_consistency(route, agent_context) ==
    IF route = "text"
    THEN \/ ~(HasAttr(FieldsOf(agent_context.class), "context_type")
                /\ agent_context.context_type = "text")
         \/ HasAttr(FieldsOf(agent_context.class), "image_ref")
         \/ HasAttr(FieldsOf(agent_context.class), "transcript_delta")
    ELSE IF route = "text+image"
    THEN \/ ~(HasAttr(FieldsOf(agent_context.class), "context_type")
                /\ agent_context.context_type = "text_image")
         \/ ~HasAttr(FieldsOf(agent_context.class), "image_ref")
    ELSE IF route \in {"short-video", "long-video"}
    THEN \/ ~(HasAttr(FieldsOf(agent_context.class), "context_type")
                /\ agent_context.context_type = "video")
         \/ ~HasAttr(FieldsOf(agent_context.class), "transcript_delta")
    ELSE IF route = "none"
    THEN agent_context # NoContext
    ELSE TRUE

\* the endpoint process_frame of routers/fact_check.py for a session that is
\* in the store: committed is the call of update_session at line 53
process_frame(input) ==
    LET out == AgentOrchestrator_process_frame(input)
    IN  IF out.raised
        THEN [out EXCEPT !.raised = TRUE] @@ [committed |-> FALSE]
        ELSE IF /\ out.response.agent_context # NoContext
                /\ _validate_agent_context_consistency(out.response.route,
                                                       out.response.agent_context)
        THEN [out EXCEPT !.raised = TRUE] @@ [committed |-> FALSE]
        ELSE out @@ [committed |-> TRUE]

NotificationLists ==
    LET n(color) == NotificationPayload(color, <<"short">>, <<"details">>, << >>)
    IN  {<< >>, <<n("green")>>, <<n("yellow")>>, <<n("green"), n("yellow")>>,
         <<n("yellow"), n("yellow")>>}

ReplyInputs ==
    { [reply |-> [route |-> r, agentContext |-> c, notifications |-> ns],
       strictness |-> s, checker |-> k, synthesis |-> y] :
        r \in Routes, c \in ContextData \cup {NoContext},
        ns \in NotificationLists, s \in {3, 10},
        k \in {"raises", "returns"}, y \in SynthesisOutcomes }

NotProcessed == [processed |-> FALSE]

\* POST /api/v1/fact-check/process-frame/{session_id}
ProcessFrame ==
    /\ frame_out = NotProcessed
    /\ frame_out' = process_frame(reply_in)
    /\ UNCHANGED reply_in

\* ------------------------------------------------------------------------
\* WebSocketManager, the websocket endpoint and the background tasks
\* The steps of the tasks take no time; time passes while they sleep.
\* ------------------------------------------------------------------------
\* the session ids of the table, in the order of the dict
SessionOrder == <<"s1">>
ConnSessions == { SessionOrder[i] : i \in 1..Len(SessionOrder) }
\* the task objects of _heartbeat_loop; 0 stands for None
Loops == {1, 2}

\* no entry of the dict under the key
NoRecord == [absent |-> TRUE]

WebSocketConnection(websocket, t) ==
    [websocket |-> websocket, last_heartbeat |-> t, is_alive |-> TRUE]

\* the keys of the dict
Connected(conns) == { sid \in ConnSessions : conns[sid] # NoRecord }

\* variant: stale from the timeout on
is_stale_inclusive(connection, t, timeout_seconds) ==
    t - connection.last_heartbeat >= timeout_seconds

is_stale(connection, t, timeout_seconds) ==
    t - connection.last_heartbeat > timeout_seconds

\* a task of _heartbeat_loop: where it is suspended, when its sleep ends,
\* the connections _send_heartbeats has still to send to, the task it awaits
\* in stop_heartbeat_monitor, whether it left _check_connections for that,
\* and whether cancel() was called on it
NoLoop ==
    [state |-> "unborn", wake_at |-> 0, todo |-> << >>, awaiting |-> 0,
     resnap |-> FALSE, cancel |-> FALSE]

Sleeping(t) == [NoLoop EXCEPT !.state = "sleep", !.wake_at = t + HeartbeatInterval]

Sending(todo) == [NoLoop EXCEPT !.state = "send", !.todo = todo]

LoopDone == [NoLoop EXCEPT !.state = "done"]

Running(loop) == loop.state \in {"sleep", "send", "stopping"}

\* the manager's fields, and the task the caller is left awaiting (0: none)
ManagerState(conns, task, lps, awaiting) ==
    [connections |-> conns, heartbeat_task |-> task, loops |-> lps,
     awaiting |-> awaiting]

Manager == ManagerState(connections, heartbeat_task, loops, 0)

\* a task object that is not in use
Free(m, i) ==
    /\ m.loops[i].state \in {"unborn", "done"}
    /\ waiters[i] = 0
    /\ \A j \in Loops : m.loops[j].awaiting # i

CanStart(m) == m.heartbeat_task # 0 \/ \E i \in Loops : Free(m, i)

start_heartbeat_monitor(m, t) ==
    IF m.heartbeat_task = 0
    THEN LET id == CHOOSE i \in Loops :
                      /\ Free(m, i)
                      /\ \A j \in Loops : Free(m, j) => i <= j
         IN  [m EXCEPT !.heartbeat_task = id, !.loops[id] = Sleeping(t)]
    ELSE m

\* up to the await of the task; the caller resumes when the task is done
stop_heartbeat_monitor(m) ==
    IF m.heartbeat_task = 0
    THEN m
    ELSE IF m.loops[m.heartbeat_task].state = "done"
         THEN [m EXCEPT !.heartbeat_task = 0]
         ELSE [m EXCEPT !.loops[m.heartbeat_task].cancel = TRUE,
                        !.awaiting = m.heartbeat_task]

connect(m, session_id, websocket, t) ==
    LET m2 == [m EXCEPT !.connections[session_id] = WebSocketConnection(websocket, t)]
    IN  IF Cardinality(Connected(m2.connections)) = 1
        THEN start_heartbeat_monitor(m2, t)
        ELSE m2

disconnect(m, session_id) ==
    LET m2 == [m EXCEPT !.connections[session_id] = NoRecord]
    IN  IF Connected(m2.connections) = {}
        THEN stop_heartbeat_monitor(m2)
        ELSE m2

update_heartbeat(m, session_id, t) ==
    IF m.connections[session_id] # NoRecord
    THEN [m EXCEPT !.connections[session_id].last_heartbeat = t]
    ELSE m

\* the manager as a handler leaves it; a handler that awaits a task waits
HandlerLeaves(m) ==
    /\ m.awaiting # 0 => waiters[m.awaiting] < MaxWaiters
    /\ connections' = m.connections
    /\ heartbeat_task' = m.heartbeat_task
    /\ loops' = m.loops
    /\ waiters' = IF m.awaiting # 0
                  THEN [waiters EXCEPT ![m.awaiting] = @ + 1]
                  ELSE waiters

ClosedEndpoint == [pc |-> "closed", session_id |-> "none"]

\* the last step was neither a send nor a sweep
NoEvent == [kind |-> "none"]

\* a send: who sent, whether it failed, whether the connection was marked
\* dead, and whether the record of that connection is in the table after it
SendEvent(by, failed, marked_dead, in_table) ==
    [kind |-> "send", by |-> by, failed |-> failed, marked_dead |-> marked_dead,
     in_table |-> in_table]

\* the table holds a record of the websocket under the session id
Holds(conns, session_id, websocket) ==
    /\ conns[session_id] # NoRecord
    /\ conns[session_id].websocket = websocket

\* websocket_endpoint up to its receive loop
Connect(k, session_id) ==
    /\ lifespan # "exited"
    /\ endpoint[k].pc = "closed"
    /\ LET m == [Manager EXCEPT
                   !.connections[session_id] = WebSocketConnection(k, now)]
       IN  Cardinality(Connected(m.connections)) = 1 => CanStart(Manager)
    /\ HandlerLeaves(connect(Manager, session_id, k, now))
    /\ endpoint' = [endpoint EXCEPT ![k] = [pc |-> "open", session_id |-> session_id]]
    /\ conn_event' = NoEvent
    /\ UNCHANGED <<lifespan, cleanup_task, now>>

\* the finally clause of websocket_endpoint on the manager m
EndpointCloses(k, m) ==
    /\ HandlerLeaves(disconnect(m, endpoint[k].session_id))
    /\ endpoint' = [endpoint EXCEPT ![k] = ClosedEndpoint]

\* receive_json raises WebSocketDisconnect
Close(k) ==
    /\ lifespan # "exited"
    /\ endpoint[k].pc = "open"
    /\ EndpointCloses(k, Manager)
    /\ conn_event' = NoEvent
    /\ UNCHANGED <<lifespan, cleanup_task, now>>

\* a send of a handler with websocket.send_json on the manager m: when it
\* raises, the except clauses send the error message, and when no send of
\* theirs goes through the exception leaves the endpoint
DirectSend(k, m, ok, recovered) ==
    /\ IF ok \/ recovered
       THEN /\ HandlerLeaves(m)
            /\ UNCHANGED endpoint
       ELSE EndpointCloses(k, m)
    /\ conn_event' = SendEvent("handler", ~ok, FALSE,
                               Holds(connections', endpoint[k].session_id, k))

\* a frame or control message whose handler sends to the client
HandlerSend(k, ok, recovered) ==
    /\ lifespan # "exited"
    /\ endpoint[k].pc = "open"
    /\ DirectSend(k, Manager, ok, recovered)
    /\ UNCHANGED <<lifespan, cleanup_task, now>>

\* handle_heartbeat
ClientHeartbeat(k, ok, recovered) ==
    /\ lifespan # "exited"
    /\ endpoint[k].pc = "open"
    /\ DirectSend(k, update_heartbeat(Manager, endpoint[k].session_id, now),
                  ok, recovered)
    /\ UNCHANGED <<lifespan, cleanup_task, now>>

\* send_to_session, from the test-notification endpoint
ManagerSend(session_id, ok) ==
    /\ lifespan # "exited"
    /\ connections[session_id] # NoRecord
    /\ IF ok
       THEN HandlerLeaves(Manager)
       ELSE HandlerLeaves(disconnect(
               [Manager EXCEPT !.connections[session_id].is_alive = FALSE],
               session_id))
    /\ conn_event' = SendEvent("manager", ~ok, ~ok,
                               Holds(connections', session_id,
                                     connections[session_id].websocket))
    /\ UNCHANGED <<endpoint, lifespan, cleanup_task, now>>

\* DELETE /sessions/{session_id}, the part on the connection table
DisconnectSession(session_id) ==
    /\ lifespan # "exited"
    /\ connections[session_id] # NoRecord
    /\ HandlerLeaves(disconnect(Manager, session_id))
    /\ conn_event' = NoEvent
    /\ UNCHANGED <<endpoint, lifespan, cleanup_task, now>>

\* a handler suspended in stop_heartbeat_monitor resumes
StopResumes(t) ==
    /\ lifespan # "exited"
    /\ waiters[t] > 0
    /\ loops[t].state = "done"
    /\ waiters' = [waiters EXCEPT ![t] = @ - 1]
    /\ heartbeat_task' = 0
    /\ conn_event' = NoEvent
    /\ UNCHANGED <<connections, loops, endpoint, lifespan,
                   cleanup_task, now>>

\* list(self.connections.items())
Snapshot(conns) ==
    LET In(sid) == conns[sid] # NoRecord
        present == SelectSeq(SessionOrder, In)
    IN  [i \in 1..Len(present) |->
            [session_id |-> present[i], websocket |-> conns[present[i]].websocket]]

\* the loop from _send_heartbeats on
AfterCheck(conns, t) ==
    IF Snapshot(conns) = << >> THEN Sleeping(t) ELSE Sending(Snapshot(conns))

AfterSend(todo, t) ==
    IF todo = << >> THEN Sleeping(t) ELSE Sending(todo)

Stale(conns, t) ==
    { sid \in Connected(conns) :
         \/ ~conns[sid].is_alive
         \/ is_stale(conns[sid], t, ConnectionTimeout) }

\* _check_connections on the manager m
_check_connections(m, t) ==
    LET stale == Stale(m.connections, t)
        m1 == [m EXCEPT !.connections =
                  [sid \in ConnSessions |->
                      IF sid \in stale THEN NoRecord ELSE m.connections[sid]]]
    IN  IF stale # {} /\ Connected(m1.connections) = {}
        THEN stop_heartbeat_monitor(m1)
        ELSE m1

\* the sleep of the loop ends: _check_connections, then the snapshot of
\* _send_heartbeats
LoopWake(t) ==
    /\ lifespan # "exited"
    /\ loops[t].state = "sleep"
    /\ ~loops[t].cancel
    /\ loops[t].wake_at <= now
    /\ LET m == _check_connections(Manager, now)
       IN  /\ connections' = m.connections
           /\ heartbeat_task' = m.heartbeat_task
           /\ loops' = IF m.awaiting # 0
                       THEN [m.loops EXCEPT ![t].state = "stopping",
                                            ![t].wake_at = 0,
                                            ![t].awaiting = m.awaiting,
                                            ![t].resnap = TRUE]
                       ELSE [m.loops EXCEPT ![t] = AfterCheck(m.connections, now)]
    /\ conn_event' = [kind |-> "sweep", evicted |-> Stale(connections, now)]
    /\ UNCHANGED <<waiters, endpoint, lifespan, cleanup_task, now>>

\* the loop resumes in stop_heartbeat_monitor: the task it awaits is done,
\* or CancelledError is thrown into it there and passed over (the task that
\* stops itself)
LoopResume(t) ==
    /\ lifespan # "exited"
    /\ loops[t].state = "stopping"
    /\ loops[loops[t].awaiting].state = "done" \/ loops[t].cancel
    /\ heartbeat_task' = 0
    /\ loops' = [loops EXCEPT ![t] = IF loops[t].resnap
                                     THEN AfterCheck(connections, now)
                                     ELSE AfterSend(loops[t].todo, now)]
    /\ conn_event' = NoEvent
    /\ UNCHANGED <<connections, waiters, endpoint, lifespan,
                   cleanup_task, now>>

\* one send of _send_heartbeats
LoopSend(t, ok) ==
    /\ lifespan # "exited"
    /\ loops[t].state = "send"
    /\ ~loops[t].cancel
    /\ LET head == loops[t].todo[1]
           rest == Tail(loops[t].todo)
           m == disconnect(Manager, head.session_id)
       IN  /\ IF ok
              THEN /\ loops' = [loops EXCEPT ![t] = AfterSend(rest, now)]
                   /\ UNCHANGED <<connections, heartbeat_task>>
              ELSE /\ connections' = m.connections
                   /\ heartbeat_task' = m.heartbeat_task
                   /\ loops' = IF m.awaiting # 0
                               THEN [m.loops EXCEPT ![t].state = "stopping",
                                                    ![t].todo = rest,
                                                    ![t].awaiting = m.awaiting]
                               ELSE [m.loops EXCEPT ![t] = AfterSend(rest, now)]
           /\ conn_event' = SendEvent("loop", ~ok, ~ok,
                                      Holds(connections', head.session_id,
                                            head.websocket))
    /\ UNCHANGED <<waiters, endpoint, lifespan, cleanup_task, now>>

\* CancelledError reaches the loop in its sleep or in a send: break
LoopCancelled(t) ==
    /\ lifespan # "exited"
    /\ loops[t].state \in {"sleep", "send"}
    /\ loops[t].cancel
    /\ loops' = [loops EXCEPT ![t] = LoopDone]
    /\ conn_event' = NoEvent
    /\ UNCHANGED <<connections, heartbeat_task, waiters, endpoint, lifespan, cleanup_task, now>>

\* the clock moves on by the heartbeat interval while every task sleeps
ConnTick ==
    /\ lifespan # "exited"
    /\ now < MaxConnTime
    /\ \A t \in Loops :
          /\ loops[t].state \in {"unborn", "sleep", "done"}
          /\ ~loops[t].cancel
          /\ loops[t].state = "sleep" => loops[t].wake_at > now
    /\ \A t \in Loops : waiters[t] = 0
    /\ now' = now + HeartbeatInterval
    /\ conn_event' = NoEvent
    /\ UNCHANGED <<connections, heartbeat_task, loops, waiters, endpoint,
                   lifespan, cleanup_task>>

\* lifespan after its yield: cleanup_task.cancel()
Shutdown ==
    /\ lifespan = "serving"
    /\ lifespan' = "stopping"
    /\ cleanup_task' = "cancelling"
    /\ conn_event' = NoEvent
    /\ UNCHANGED <<connections, heartbeat_task, loops, waiters, endpoint,
                   now>>

\* CancelledError reaches periodic_cleanup
CleanupCancelled ==
    /\ cleanup_task = "cancelling"
    /\ cleanup_task' = "done"
    /\ conn_event' = NoEvent
    /\ UNCHANGED <<connections, heartbeat_task, loops, waiters, endpoint,
                   lifespan, now>>

\* await cleanup_task returns and lifespan ends
ShutdownCompletes ==
    /\ lifespan = "stopping"
    /\ cleanup_task = "done"
    /\ lifespan' = "exited"
    /\ conn_event' = NoEvent
    /\ UNCHANGED <<connections, heartbeat_task, loops, waiters, endpoint,
                   cleanup_task, now>>

\* ------------------------------------------------------------------------
\* SessionManager as its callers use it, one call at a time: create_session,
\* get_session, update_session, delete_session and list_active_sessions
\* ------------------------------------------------------------------------
\* the ids of the requests: s1 is the uuid POST /sessions hands out, s2 is
\* an id no session was created for
StoreIds == {"s1", "s2"}
NewId == "s1"

SessionType == {"TIME", "MANUAL", "ACTIVITY"}

\* events a caller adds to the timeline of the memory it stores
MaxEvents == 1

\* errors counted in operation_contexts before the callers stop
MaxStoreErrors == 6

\* bodies of POST /sessions; strictness in tenths
SettingsBodies ==
    { [sessionType |-> [type |-> "MANUAL"], strictness |-> 5],
      [sessionType |-> [type |-> "TIME"], strictness |-> 5],
      [sessionType |-> [type |-> "TIME", minutes |-> 0], strictness |-> 5],
      [sessionType |-> [type |-> "MANUAL"], strictness |-> 11],
      [sessionType |-> [type |-> "MANUAL"], strictness |-> -1] }

NoSettings == [absent |-> TRUE]

\* SessionTypeConfig(**data) or SessionSettings(...) raises ValidationError:
\* type is a SessionType, minutes an optional int, strictness in [0, 1]
ValidationError(settings_data) ==
    \/ settings_data.sessionType.type \notin SessionType
    \/ settings_data.strictness < 0
    \/ settings_data.strictness > 10

\* the SessionMemory of _create_session_operation
CreatedMemory(settings_data) ==
    LET data == settings_data.sessionType
        minutes == IF "minutes" \in DOMAIN data THEN data.minutes ELSE NoMinutes
    IN  SessionMemory(SessionSettings(SessionTypeConfig(data.type, minutes),
                                      settings_data.strictness,
                                      NotificationSettings(TRUE, TRUE)),
                      << >>, NoActivity, << >>, << >>)

\* RetryConfig(max_attempts=3, base_delay=1.0) of create_session
CreateSessionConfig ==
    RetryConfig(3, 1000, DefaultMaxDelay, DefaultExponentialBase, TRUE,
                "exponential_backoff")

SessionOperationResult(success, data, error) ==
    [kind |-> "result", success |-> success, data |-> data, error |-> error]

\* invoked counts the awaits of the operation, slept the sleeps of the retry
\* loop, read_faults the reads of the durable store that raised
IdleManager ==
    [op |-> "none", pc |-> "done", session_id |-> None,
     settings_data |-> NoSettings, attempt |-> 0, invoked |-> 0, slept |-> 0,
     read_faults |-> 0, result |-> NoResult]

ErrorsCounted ==
    LET n(o, s) == AttemptCount(operation_contexts, OperationId(o, s))
    IN  n("create_session", "s1") + n("create_session", "s2")
          + n("get_session", "s1") + n("get_session", "s2")

Stored(session_id, session_memory) ==
    latest' = [latest EXCEPT ![session_id] = session_memory]

\* create_session is called, with an id not used before
create_session(session_id, settings_data) ==
    /\ mgr.pc = "done"
    /\ latest[session_id] = NoMemory
    /\ ~deleted[session_id]
    /\ ErrorsCounted < MaxStoreErrors
    /\ mgr' = [IdleManager EXCEPT !.op = "create_session", !.pc = "attempt",
                                  !.session_id = session_id,
                                  !.settings_data = settings_data]
    /\ UNCHANGED <<now, circuit_breakers, operation_contexts, redis_client,
                   redis, sessions, latest, deleted>>

\* the except clause of retry_operation inside create_session; when the
\* final attempt yields an error response create_session builds the memory
\* again and keeps it in the in-process dictionary
CreateExcept(m, error, cbs) ==
    IF IsFinalAttempt(m.attempt, CreateSessionConfig)
    THEN LET h == handle_error_with_recovery(operation_contexts, cbs, error,
                                             "create_session", m.session_id, now)
             memory == CreatedMemory(m.settings_data)
         IN  /\ operation_contexts' = h.ctxs
             /\ circuit_breakers' = h.cbs
             /\ IF h.result.kind = "raised"
                THEN /\ mgr' = [m EXCEPT !.pc = "done", !.result = h.result]
                     /\ UNCHANGED <<redis, sessions, latest>>
                ELSE IF ValidationError(m.settings_data)
                THEN /\ mgr' = [m EXCEPT !.pc = "done",
                                         !.result = RaisedResult("validation")]
                     /\ UNCHANGED <<redis, sessions, latest>>
                ELSE /\ sessions' = [sessions EXCEPT ![m.session_id] = memory]
                     /\ redis' = redis
                     /\ Stored(m.session_id, memory)
                     /\ mgr' = [m EXCEPT !.pc = "done",
                                         !.result = [kind |-> "ok", value |-> memory]]
    ELSE /\ operation_contexts' = operation_contexts
         /\ circuit_breakers' = cbs
         /\ mgr' = [m EXCEPT !.pc = "sleep"]
         /\ UNCHANGED <<redis, sessions, latest>>

\* one iteration of the loop of retry_operation inside create_session:
\* _create_session_operation parses the settings and stores the memory
CreateAttempt(redis_ok) ==
    /\ mgr.op = "create_session"
    /\ mgr.pc = "attempt"
    /\ IF _circuit_breaker_allows_request(circuit_breakers, "create_session", now)
       THEN LET cbs == AfterAllowsRequest(circuit_breakers, "create_session", now)
                m == [mgr EXCEPT !.invoked = @ + 1]
                memory == CreatedMemory(mgr.settings_data)
            IN  IF ValidationError(mgr.settings_data)
                THEN CreateExcept(m, "validation", cbs)
                ELSE /\ _store_session(mgr.session_id, memory, redis_ok)
                     /\ Stored(mgr.session_id, memory)
                     /\ circuit_breakers' = _reset_circuit_breaker(cbs, "create_session")
                     /\ operation_contexts' =
                           ContextsAfterSuccess(operation_contexts,
                              OperationId("create_session", mgr.session_id))
                     /\ mgr' = [m EXCEPT !.pc = "done",
                                         !.result = [kind |-> "ok", value |-> memory]]
       ELSE CreateExcept(mgr, "circuit_open", circuit_breakers)
    /\ UNCHANGED <<now, redis_client, deleted>>

\* asyncio.sleep(delay) of the retry loop is over
ManagerSleepEnds ==
    /\ mgr.pc = "sleep"
    /\ mgr' = [mgr EXCEPT !.pc = "attempt", !.attempt = @ + 1, !.slept = @ + 1]
    /\ UNCHANGED <<now, circuit_breakers, operation_contexts, redis_client,
                   redis, sessions, latest, deleted>>

\* get_session is called
get_session(session_id) ==
    /\ mgr.pc = "done"
    /\ ErrorsCounted < MaxStoreErrors
    /\ mgr' = [IdleManager EXCEPT !.op = "get_session", !.pc = "attempt",
                                  !.session_id = session_id]
    /\ UNCHANGED <<now, circuit_breakers, operation_contexts, redis_client,
                   redis, sessions, latest, deleted>>

\* the except clause of retry_operation inside get_session and, for what
\* the final attempt's handle_error_with_recovery raises, the except clause
\* of get_session, which calls it again with that exception
ManagerGetExcept(m, error, cbs) ==
    IF IsFinalAttempt(m.attempt, GetSessionConfig)
    THEN LET h1 == handle_error_with_recovery(operation_contexts, cbs, error,
                                              "get_session", m.session_id, now)
             h2 == IF h1.result.kind = "raised"
                   THEN handle_error_with_recovery(h1.ctxs, h1.cbs, AttributeError,
                                                   "get_session", m.session_id, now)
                   ELSE h1
             result ==
                IF h2.result.kind = "raised" THEN h2.result
                ELSE IF h1.result.kind = "raised"
                THEN SessionOperationResult(FALSE, NoMemory, h2.result.error_type)
                ELSE SessionOperationResult(FALSE, NoMemory,
                                            Member(ErrorType, "session_not_found"))
         IN  /\ operation_contexts' = h2.ctxs
             /\ circuit_breakers' = h2.cbs
             /\ mgr' = [m EXCEPT !.pc = "done", !.result = result]
    ELSE /\ operation_contexts' = operation_contexts
         /\ circuit_breakers' = cbs
         /\ mgr' = [m EXCEPT !.pc = "sleep"]

\* one iteration of the loop of retry_operation inside get_session:
\* _get_session_operation finds the memory, does not find it, or the read
\* of the durable store raises
GetAttempt ==
    /\ mgr.op = "get_session"
    /\ mgr.pc = "attempt"
    /\ IF _circuit_breaker_allows_request(circuit_breakers, "get_session", now)
       THEN LET cbs == AfterAllowsRequest(circuit_breakers, "get_session", now)
                m == [mgr EXCEPT !.invoked = @ + 1]
            IN  \/ /\ StoredMemory(mgr.session_id) # NoMemory
                   /\ circuit_breakers' = _reset_circuit_breaker(cbs, "get_session")
                   /\ operation_contexts' =
                         ContextsAfterSuccess(operation_contexts,
                            OperationId("get_session", mgr.session_id))
                   /\ mgr' = [m EXCEPT !.pc = "done", !.result =
                         SessionOperationResult(TRUE, StoredMemory(mgr.session_id), None)]
                \/ /\ StoredMemory(mgr.session_id) = NoMemory
                   /\ ManagerGetExcept(m, "not_found", cbs)
                \/ /\ redis_client
                   /\ ManagerGetExcept([m EXCEPT !.read_faults = @ + 1], "network", cbs)
       ELSE ManagerGetExcept(mgr, "circuit_open", circuit_breakers)
    /\ UNCHANGED <<now, redis_client, redis, sessions, latest, deleted>>

\* update_session: the caller stores the memory it stored last with one
\* more event on the timeline
update_session(session_id, redis_ok) ==
    /\ mgr.pc = "done"
    /\ latest[session_id] # NoMemory
    /\ Len(latest[session_id].timeline) < MaxEvents
    /\ LET session_memory ==
              UpdatedMemory(latest[session_id], Len(latest[session_id].timeline) + 1)
       IN  /\ _store_session(session_id, session_memory, redis_ok)
           /\ Stored(session_id, session_memory)
    /\ mgr' = [IdleManager EXCEPT !.op = "update_session",
                                  !.session_id = session_id,
                                  !.result = SessionOperationResult(TRUE, NoMemory, None)]
    /\ UNCHANGED <<now, circuit_breakers, operation_contexts, redis_client, deleted>>

\* delete_session is called and returns
DeleteSession(session_id, redis_ok) ==
    /\ mgr.pc = "done"
    /\ latest[session_id] # NoMemory
    /\ delete_session(session_id, redis_ok)
    /\ deleted' = [deleted EXCEPT ![session_id] = TRUE]
    /\ latest' = [latest EXCEPT ![session_id] = NoMemory]
    /\ mgr' = [IdleManager EXCEPT !.op = "delete_session", !.session_id = session_id]
    /\ UNCHANGED <<now, circuit_breakers, operation_contexts, redis_client>>

\* what list_active_sessions returns: the keys of the durable store, or,
\* without it or when listing them raises, those of the dictionary
list_active_sessions(keys_ok) ==
    IF redis_client /\ keys_ok
    THEN {s \in DOMAIN redis : redis[s] # NoMemory}
    ELSE {s \in DOMAIN sessions : sessions[s] # NoMemory}

\* ------------------------------------------------------------------------
\* The registry of circuit breakers under the three methods that write it
\* ------------------------------------------------------------------------
RegistryOps == {"get_session", "create_session"}

\* failures recorded for one breaker before the callers stop
MaxRecorded == 6

BreakerOf(cbs, operation) ==
    IF operation \in DOMAIN cbs THEN cbs[operation] ELSE CircuitBreakerState

\* _update_circuit_breaker(operation, error_type)
BreakerFailure(operation) ==
    /\ BreakerOf(circuit_breakers, operation).failure_count < MaxRecorded
    /\ circuit_breakers' = _update_circuit_breaker(circuit_breakers, operation, now)
    /\ UNCHANGED <<now, operation_contexts, retryVars>>

\* _circuit_breaker_allows_request(operation) on an open breaker whose time
\* has come
BreakerRequest(operation) ==
    /\ AfterAllowsRequest(circuit_breakers, operation, now) # circuit_breakers
    /\ circuit_breakers' = AfterAllowsRequest(circuit_breakers, operation, now)
    /\ UNCHANGED <<now, operation_contexts, retryVars>>

\* _reset_circuit_breaker(operation), after a success or from the reset
\* endpoint
BreakerReset(operation) ==
    /\ operation \in DOMAIN circuit_breakers
    /\ _reset_circuit_breaker(circuit_breakers, operation) # circuit_breakers
    /\ circuit_breakers' = _reset_circuit_breaker(circuit_breakers, operation)
    /\ UNCHANGED <<now, operation_contexts, retryVars>>

\* ------------------------------------------------------------------------
\* The manual retry endpoint: its response for what retry_operation left
\* ------------------------------------------------------------------------
\* the body the client gets; status 500 without a success field is the
\* global exception handler's
retry_session_operation(result, ctxs, cbs, operation, session_id, t) ==
    IF result.kind = "raised"
    THEN LET h == handle_error_with_recovery(ctxs, cbs, result.exception,
                                             operation, session_id, t)
         IN  IF h.result.kind = "raised"
             THEN [status |-> 500, body |-> [error |-> "Internal server error"]]
             ELSE [status |-> 500, body |-> [success |-> FALSE, error |-> h.result]]
    ELSE [status |-> 200, body |-> [success |-> TRUE, result |-> result]]

\* ------------------------------------------------------------------------
\* MediaAgent._invoke_with_tools and BedrockService.process_tool_calls
\* ------------------------------------------------------------------------
MaxIterations == 3

\* tool_use items in one reply of the model
MaxToolCalls == 2

\* what the model replies: content with tool_use items, no content, a text
\* that parses to a result, a text that does not, a JSON text that is no
\* FactCheckResult, or the invocation raises
Replies == {"tool_use", "empty", "json", "text", "invalid", "raises"}

ParsedResult ==
    FactCheckResult(<<Claim("c1", 90, <<Source("u1", "A")>>)>>, "notes",
                    "summary", <<Source("u1", "A")>>)

ParseFallback ==
    FactCheckResult(<< >>, "Failed to parse agent response",
                    "Unable to parse fact-check response", << >>)

IterationLimit ==
    FactCheckResult(<< >>, "Maximum tool iterations reached",
                    "Fact-checking incomplete due to iteration limit", << >>)

\* variant: the exception of a tool call leaves process_tool_calls
process_tool_calls_unguarded(tool_calls, outcomes) ==
    [raised |-> \E i \in 1..Len(tool_calls) : outcomes[i] = "raises",
     results |-> [i \in 1..Len(tool_calls) |->
                    [tool_use_id |-> tool_calls[i], type |-> "tool_result",
                     is_error |-> FALSE]]]

\* one tool_result per tool call, in order; the exception of a call is
\* caught and becomes a result with is_error
process_tool_calls(tool_calls, outcomes) ==
    [raised |-> FALSE,
     results |-> [i \in 1..Len(tool_calls) |->
                    [tool_use_id |-> tool_calls[i], type |-> "tool_result",
                     is_error |-> outcomes[i] = "raises"]]]

IdleLoop ==
    [pc |-> "idle", iteration |-> 0, invocations |-> 0,
     messages |-> << >>, tool_calls |-> << >>, outcomes |-> << >>,
     result |-> NoResult]

\* _invoke_with_tools is called
InvokeWithTools ==
    /\ tool_loop.pc \in {"idle", "done"}
    /\ tool_loop' = [IdleLoop EXCEPT !.pc = "invoke",
                                     !.messages = <<[role |-> "user", content |-> "prompt"]>>]

\* invoke_model returns or raises, and the reply is looked at
ModelReplies(reply, n) ==
    /\ tool_loop.pc = "invoke"
    /\ tool_loop.iteration < MaxIterations
    /\ LET l == [tool_loop EXCEPT !.invocations = @ + 1]
       IN  tool_loop' =
             CASE reply = "raises" ->
                    [l EXCEPT !.pc = "done", !.result = RaisedResult("model")]
               [] reply = "empty" ->
                    [l EXCEPT !.pc = "done",
                              !.result = [kind |-> "ok", value |-> IterationLimit]]
               [] reply = "tool_use" ->
                    [l EXCEPT !.pc = "tools",
                              !.tool_calls = [i \in 1..n |-> i]]
               [] reply = "json" ->
                    [l EXCEPT !.pc = "done",
                              !.result = [kind |-> "ok", value |-> ParsedResult]]
               [] reply = "text" ->
                    [l EXCEPT !.pc = "done",
                              !.result = [kind |-> "ok", value |-> ParseFallback]]
               [] OTHER ->
                    [l EXCEPT !.pc = "done", !.result = RaisedResult("validation")]

\* process_tool_calls returns, the two messages are appended and the loop
\* goes on or is over; outcomes is an observer: how each tool call ended
ToolsProcessed(outcomes) ==
    /\ tool_loop.pc = "tools"
    /\ LET r == process_tool_calls(tool_loop.tool_calls, outcomes)
           l == [tool_loop EXCEPT
                   !.messages = @ \o <<[role |-> "assistant", content |-> "tool_use"],
                                       [role |-> "user", content |-> r.results]>>,
                   !.iteration = @ + 1, !.tool_calls = << >>,
                   !.outcomes = outcomes]
       IN  tool_loop' =
             IF r.raised
             THEN [tool_loop EXCEPT !.pc = "done", !.tool_calls = << >>,
                                    !.outcomes = outcomes,
                                    !.result = RaisedResult("tool")]
             ELSE IF l.iteration < MaxIterations
             THEN [l EXCEPT !.pc = "invoke"]
             ELSE [l EXCEPT !.pc = "done",
                            !.result = [kind |-> "ok", value |-> IterationLimit]]

\* ------------------------------------------------------------------------
\* Initial states and specifications
\* ------------------------------------------------------------------------
InitResilience ==
    /\ now = 0
    /\ circuit_breakers = << >>
    /\ operation_contexts = << >>
    /\ pc = [c \in Callers |-> "idle"]
    /\ call = [c \in Callers |-> IdleCall]
    /\ streak = [o \in Operations |-> 0]
    /\ trial_calls = [o \in Operations |-> 0]
    /\ opened_at = [o \in Operations |-> NoTime]

InitDelay ==
    /\ delay_in = [attempt |-> 0, config |-> IdleCall.config, rnd |-> 0]
    /\ delay_out = 0

InitSessions ==
    /\ redis_client = FALSE
    /\ redis = [s \in SessionIds |-> NoMemory]
    /\ sessions = [s \in SessionIds |-> NoMemory]
    /\ handler = [k \in Transports |-> IdleHandler]
    /\ received = << >>
    /\ ended = FALSE
    /\ committed = {}
    /\ faulted = FALSE
    /\ last_cleanup = NoTime

FirstEndInput ==
    [memory |-> NewSessionMemory([sessionType |-> SessionTypeConfig("MANUAL", NoMinutes)]),
     frame |-> [timestamp |-> 90, tree_summary |-> [app_package |-> "app_a"]]]

FirstRecoveryInput ==
    [error |-> [recovery_actions |-> DefaultActions],
     context |-> [recovery_actions_taken |-> {}, attempt_count |-> 1],
     connectivity |-> TRUE]

InitEndRecovery ==
    /\ end_in = FirstEndInput
    /\ end_out = should_end_session(end_in.memory, end_in.frame)
    /\ rec_in = FirstRecoveryInput
    /\ rec_out = _attempt_automatic_recovery(rec_in.error, rec_in.context,
                                            rec_in.connectivity)

FirstFilterInput ==
    [result |-> FactCheckResult(<< >>, "notes", "summary", <<Source("u1", "A")>>),
     strictness |-> 5]

InitFilter ==
    /\ filter_in = FirstFilterInput
    /\ filter_out = NotFiltered

FirstReplyInput ==
    [reply |-> [route |-> "none", agentContext |-> NoContext, notifications |-> << >>],
     strictness |-> 3, checker |-> "returns", synthesis |-> "plain"]

InitRoute ==
    /\ reply_in = FirstReplyInput
    /\ frame_out = NotProcessed

InitConn ==
    /\ connections = [sid \in ConnSessions |-> NoRecord]
    /\ heartbeat_task = 0
    /\ loops = [t \in Loops |-> NoLoop]
    /\ waiters = [t \in Loops |-> 0]
    /\ endpoint = [k \in Transports |-> ClosedEndpoint]
    /\ conn_event = NoEvent
    /\ lifespan = "serving"
    /\ cleanup_task = "running"

InitApi ==
    /\ mgr = IdleManager
    /\ latest = [s \in StoreIds |-> NoMemory]
    /\ deleted = [s \in StoreIds |-> FALSE]

InitTools == tool_loop = IdleLoop

InitFn ==
    /\ InitEndRecovery
    /\ InitFilter
    /\ InitRoute
    /\ InitConn
    /\ InitApi
    /\ InitTools

Init == InitResilience /\ InitDelay /\ InitSessions /\ InitFn

Next ==
    \/ \E c \in Callers, o \in Operations, s \in SessionIds, cfg \in RetryConfigs :
          retry_operation(c, o, s, cfg) /\ UNCHANGED <<delayVars, sessVars, fnVars>>
    \/ \E c \in Callers : Attempt(c) /\ UNCHANGED <<delayVars, sessVars, fnVars>>
    \/ \E c \in Callers, v \in Values :
          OperationReturns(c, v) /\ UNCHANGED <<delayVars, sessVars, fnVars>>
    \/ \E c \in Callers, e \in Raised :
          OperationRaises(c, e) /\ UNCHANGED <<delayVars, sessVars, fnVars>>
    \/ \E c \in Callers : SleepEnds(c) /\ UNCHANGED <<delayVars, sessVars, fnVars>>
    \/ Tick /\ UNCHANGED <<delayVars, sessVars, fnVars>>

\* the service as constructed: the registry of breakers is empty
Spec == Init /\ [][Next]_vars

\* the registry after n failures of the operation were recorded at time t
RECURSIVE FailuresRecorded(_, _, _, _)
FailuresRecorded(cbs, operation, n, t) ==
    IF n = 0 THEN cbs
    ELSE FailuresRecorded(_update_circuit_breaker(cbs, operation, t), operation, n - 1, t)

\* the retry engine over a registry that holds a breaker opened at time 0,
\* as failure_threshold calls of _update_circuit_breaker leave it
InitB ==
    /\ now = 0
    /\ circuit_breakers \in
          { FailuresRecorded(<< >>, o, FailureThreshold, 0) : o \in Operations }
    /\ operation_contexts = << >>
    /\ pc = [c \in Callers |-> "idle"]
    /\ call = [c \in Callers |-> IdleCall]
    /\ streak = [o \in Operations |-> 0]
    /\ trial_calls = [o \in Operations |-> 0]
    /\ opened_at = [o \in Operations |-> 0]
    /\ InitDelay
    /\ InitSessions
    /\ InitFn

NextB ==
    \/ Next
    \/ \E o \in Operations : reset_circuit_breaker(o) /\ UNCHANGED <<delayVars, sessVars, fnVars>>

SpecBreaker == InitB /\ [][NextB]_vars

\* _calculate_retry_delay over its inputs
InitD ==
    /\ InitResilience
    /\ InitSessions
    /\ InitFn
    /\ \E i \in {j \in DelayInputs : j.attempt = 0 /\ j.rnd = 0} :
          /\ delay_in = i
          /\ delay_out = _calculate_retry_delay(i.attempt, i.config, i.rnd)

NextD == \E i \in DelayInputs : CalculateDelay(i) /\ UNCHANGED <<cbVars, sessVars, fnVars>>

SpecDelay == InitD /\ [][NextD]_vars

\* the session store and the message handlers of two transports of one
\* session; the durable store is present or not. The sleeps of the retry
\* loop end after whatever time they take: the clock stays where it is.
InitS ==
    /\ InitResilience
    /\ InitDelay
    /\ InitFn
    /\ redis_client \in BOOLEAN
    /\ redis = [s \in SessionIds |-> NoMemory]
    /\ sessions = [s \in SessionIds |-> NoMemory]
    /\ handler = [k \in Transports |-> IdleHandler]
    /\ received = << >>
    /\ ended = FALSE
    /\ committed = {}
    /\ faulted = FALSE
    /\ last_cleanup = NoTime

otherVars == <<delayVars, retryVars, fnVars>>

NextS ==
    \/ \E sd \in SettingsData, ok \in BOOLEAN :
          CreateSession(sd, ok) /\ UNCHANGED otherVars
    \/ \E k \in Transports : ReceiveFrame(k) /\ UNCHANGED otherVars
    \/ \E k \in Transports : ReceiveSessionStart(k) /\ UNCHANGED otherVars
    \/ \E k \in Transports : Get(k) /\ UNCHANGED otherVars
    \/ \E k \in Transports : GetSleepEnds(k) /\ UNCHANGED otherVars
    \/ \E k \in Transports, e \in BOOLEAN, n \in BOOLEAN :
          ManagerReplies(k, e, n) /\ UNCHANGED otherVars
    \/ \E k \in Transports : ManagerRaises(k) /\ UNCHANGED otherVars
    \/ \E k \in Transports, ok \in BOOLEAN :
          UpdateSession(k, ok) /\ UNCHANGED otherVars
    \/ \E k \in Transports, ok \in BOOLEAN :
          EndSession(k, ok) /\ UNCHANGED otherVars
    \/ \E k \in Transports, ok \in BOOLEAN :
          SessionStop(k, ok) /\ UNCHANGED otherVars
    \/ \E ok \in BOOLEAN : DeleteEndpoint(ok) /\ UNCHANGED otherVars
    \/ \E ok \in BOOLEAN : cleanup_expired_sessions(ok) /\ UNCHANGED otherVars

SpecSession == InitS /\ [][NextS]_vars

\* should_end_session over its inputs
InitE ==
    /\ InitResilience
    /\ InitDelay
    /\ InitSessions
    /\ InitFn

NextE ==
    \E m \in EndMemories \cup {end_out.memory}, f \in EndFrames :
       ShouldEndSession(m, f)
          /\ UNCHANGED <<cbVars, delayVars, sessVars, rec_in, rec_out, filterVars, routeVars,
                        connVars, apiVars, toolVars>>

SpecEnd == InitE /\ [][NextE]_vars

\* _attempt_automatic_recovery over its inputs
NextR ==
    \E i \in RecoveryInputs :
       AttemptRecovery(i)
          /\ UNCHANGED <<cbVars, delayVars, sessVars, end_in, end_out, filterVars, routeVars,
                        connVars, apiVars, toolVars>>

SpecRecovery == InitE /\ [][NextR]_vars

\* apply_strictness_filter over its inputs
InitF ==
    /\ InitResilience
    /\ InitDelay
    /\ InitSessions
    /\ InitEndRecovery
    /\ filter_in \in FilterInputs
    /\ filter_out = NotFiltered
    /\ InitRoute
    /\ InitConn
    /\ InitApi
    /\ InitTools

NextF ==
    ApplyFilter
       /\ UNCHANGED <<cbVars, delayVars, sessVars, end_in, end_out, rec_in, rec_out,
                      routeVars, connVars, apiVars, toolVars>>

SpecFilter == InitF /\ [][NextF]_vars

\* the fact-check endpoint over the replies of the Manager
InitP ==
    /\ InitResilience
    /\ InitDelay
    /\ InitSessions
    /\ InitEndRecovery
    /\ InitFilter
    /\ reply_in \in ReplyInputs
    /\ frame_out = NotProcessed
    /\ InitConn
    /\ InitApi
    /\ InitTools

NextP ==
    ProcessFrame
       /\ UNCHANGED <<cbVars, delayVars, sessVars, end_in, end_out, rec_in, rec_out,
                      filterVars, connVars, apiVars, toolVars>>

SpecRoute == InitP /\ [][NextP]_vars

\* the connection table, the heartbeat tasks and shutdown
connRest ==
    <<circuit_breakers, operation_contexts, retryVars, delayVars, sessVars,
      end_in, end_out, rec_in, rec_out, filterVars, routeVars, apiVars,
      toolVars>>

NextC ==
    \/ \E k \in Transports, sid \in ConnSessions :
          Connect(k, sid) /\ UNCHANGED connRest
    \/ \E k \in Transports : Close(k) /\ UNCHANGED connRest
    \/ \E k \in Transports, ok \in BOOLEAN, recovered \in BOOLEAN :
          HandlerSend(k, ok, recovered) /\ UNCHANGED connRest
    \/ \E k \in Transports, ok \in BOOLEAN, recovered \in BOOLEAN :
          ClientHeartbeat(k, ok, recovered) /\ UNCHANGED connRest
    \/ \E sid \in ConnSessions, ok \in BOOLEAN :
          ManagerSend(sid, ok) /\ UNCHANGED connRest
    \/ \E sid \in ConnSessions : DisconnectSession(sid) /\ UNCHANGED connRest
    \/ \E t \in Loops : StopResumes(t) /\ UNCHANGED connRest
    \/ \E t \in Loops : LoopWake(t) /\ UNCHANGED connRest
    \/ \E t \in Loops : LoopResume(t) /\ UNCHANGED connRest
    \/ \E t \in Loops, ok \in BOOLEAN : LoopSend(t, ok) /\ UNCHANGED connRest
    \/ \E t \in Loops : LoopCancelled(t) /\ UNCHANGED connRest
    \/ ConnTick /\ UNCHANGED connRest

SpecConn == Init /\ [][NextC]_vars

\* shutdown of the process while connections come and go
NextX ==
    \/ \E k \in Transports, sid \in ConnSessions :
          Connect(k, sid) /\ UNCHANGED connRest
    \/ \E k \in Transports : Close(k) /\ UNCHANGED connRest
    \/ \E t \in Loops : StopResumes(t) /\ UNCHANGED connRest
    \/ \E t \in Loops : LoopWake(t) /\ UNCHANGED connRest
    \/ \E t \in Loops : LoopResume(t) /\ UNCHANGED connRest
    \/ \E t \in Loops, ok \in BOOLEAN : LoopSend(t, ok) /\ UNCHANGED connRest
    \/ \E t \in Loops : LoopCancelled(t) /\ UNCHANGED connRest
    \/ ConnTick /\ UNCHANGED connRest
    \/ Shutdown /\ UNCHANGED connRest
    \/ CleanupCancelled /\ UNCHANGED connRest
    \/ ShutdownCompletes /\ UNCHANGED connRest

SpecShutdown == Init /\ [][NextX]_vars

\* SessionManager under its callers, with the durable store present or not
\* and each of its operations succeeding or raising
InitT ==
    /\ InitResilience
    /\ InitDelay
    /\ InitFn
    /\ redis_client \in BOOLEAN
    /\ redis = [s \in StoreIds |-> NoMemory]
    /\ sessions = [s \in StoreIds |-> NoMemory]
    /\ handler = [k \in Transports |-> IdleHandler]
    /\ received = << >>
    /\ ended = FALSE
    /\ committed = {}
    /\ faulted = FALSE
    /\ last_cleanup = NoTime

storeRest ==
    <<retryVars, delayVars, handler, received, ended, committed, faulted,
      last_cleanup, end_in, end_out, rec_in, rec_out, filterVars, routeVars,
      connVars, toolVars>>

NextT ==
    \/ \E sd \in SettingsBodies : create_session(NewId, sd) /\ UNCHANGED storeRest
    \/ \E ok \in BOOLEAN : CreateAttempt(ok) /\ UNCHANGED storeRest
    \/ ManagerSleepEnds /\ UNCHANGED storeRest
    \/ \E s \in StoreIds : get_session(s) /\ UNCHANGED storeRest
    \/ GetAttempt /\ UNCHANGED storeRest
    \/ \E s \in StoreIds, ok \in BOOLEAN : update_session(s, ok) /\ UNCHANGED storeRest
    \/ \E s \in StoreIds, ok \in BOOLEAN : DeleteSession(s, ok) /\ UNCHANGED storeRest

SpecStore == InitT /\ [][NextT]_vars

\* the registry of breakers of two operations
registryRest == <<delayVars, sessVars, fnVars>>

NextG ==
    \/ \E o \in RegistryOps : BreakerFailure(o) /\ UNCHANGED registryRest
    \/ \E o \in RegistryOps : BreakerRequest(o) /\ UNCHANGED registryRest
    \/ \E o \in RegistryOps : BreakerReset(o) /\ UNCHANGED registryRest
    \/ Tick /\ UNCHANGED registryRest

SpecRegistry == Init /\ [][NextG]_vars

\* the tool loop of one agent; an awaited call returns or raises
toolRest ==
    <<cbVars, delayVars, sessVars, end_in, end_out, rec_in, rec_out,
      filterVars, routeVars, connVars, apiVars>>

NextU ==
    \/ InvokeWithTools /\ UNCHANGED toolRest
    \/ \E reply \in Replies, n \in 1..MaxToolCalls :
          ModelReplies(reply, n) /\ UNCHANGED toolRest
    \/ \E outcomes \in [1..Len(tool_loop.tool_calls) -> {"returns", "raises"}] :
          ToolsProcessed(outcomes) /\ UNCHANGED toolRest

SpecTools ==
    /\ Init
    /\ [][NextU]_vars
    /\ WF_vars(\E reply \in Replies, n \in 1..MaxToolCalls :
                  ModelReplies(reply, n) /\ UNCHANGED toolRest)
    /\ WF_vars(\E outcomes \in [1..Len(tool_loop.tool_calls) -> {"returns", "raises"}] :
                  ToolsProcessed(outcomes) /\ UNCHANGED toolRest)

\* ------------------------------------------------------------------------
\* Properties
\* ------------------------------------------------------------------------
Breaker(operation) ==
    IF operation \in DOMAIN circuit_breakers
    THEN circuit_breakers[operation] ELSE CircuitBreakerState

\* the breaker is open and its time has not come
Blocked(operation) ==
    /\ Breaker(operation).state = "open"
    /\ now < Breaker(operation).next_attempt_time

\* caller c takes a step of its loop
Steps(c) == pc'[c] # pc[c]

\* C1: the step that makes the fifth consecutive failed invocation of an
\* operation leaves its breaker open, and with fewer than five consecutive
\* failed invocations the breaker is not open; every failed invocation counts,
\* whichever attempt of its retry_operation it was.
C1_OpenAtThreshold ==
    [][\A o \in Operations :
          /\ (streak[o] = FailureThreshold - 1 /\ streak'[o] = FailureThreshold)
                => BreakerState(circuit_breakers', o) = "open"
          /\ streak'[o] < FailureThreshold
                => BreakerState(circuit_breakers', o) # "open"]_vars

\* C2: an attempt made while the breaker is open and the time is before
\* next_attempt_time is rejected and does not invoke the operation.
C2_OpenBreakerRejects ==
    [][\A c \in Callers :
          (pc[c] = "attempt" /\ Blocked(call[c].operation_name) /\ Steps(c))
             => /\ pc'[c] # "invoking"
                /\ call'[c].invoked = call[c].invoked
                /\ call'[c].rejected = call[c].rejected + 1]_vars

\* a caller was rejected by the breaker, which is still blocking
C2_Witness ==
    \E c \in Callers :
       /\ call[c].rejected > 0
       /\ call[c].invoked = 0
       /\ Blocked(call[c].operation_name)

C4_OneTrialCall ==
    \A o \in Operations :
       Breaker(o).state = "half_open" => trial_calls[o] <= 1

\* C5: when an invocation made through a half_open breaker returns, the
\* breaker is closed with failure_count 0 and no next_attempt_time if it
\* succeeded, and open with next_attempt_time = now + recovery_timeout if it
\* failed.
C5_TrialDecides ==
    [][\A c \in Callers :
          LET o == call[c].operation_name IN
          (pc[c] = "invoking" /\ Steps(c) /\ Breaker(o).state = "half_open")
             => IF call'[c].succeeded > call[c].succeeded
                THEN /\ circuit_breakers'[o].state = "closed"
                     /\ circuit_breakers'[o].failure_count = 0
                     /\ circuit_breakers'[o].next_attempt_time = NoTime
                ELSE /\ circuit_breakers'[o].state = "open"
                     /\ circuit_breakers'[o].next_attempt_time
                           = now + RecoveryTimeout]_vars

\* C6: a retry_operation one of whose attempts the breaker rejected has
\* returned: it is not sleeping and makes no further attempt.
C6_RejectionStopsRetries ==
    \A c \in Callers : call[c].rejected > 0 => pc[c] = "idle"

\* C9: retry_operation invokes the operation at most max_attempts times, at
\* most one invocation succeeds, after it the call has returned that
\* invocation's result, and every invocation but the first follows a failed
\* one.
C9_AtMostMaxAttempts ==
    \A c \in Callers :
       /\ call[c].invoked <= call[c].config.max_attempts
       /\ call[c].succeeded <= 1
       /\ call[c].invoked = call[c].failed + call[c].succeeded
                              + (IF pc[c] = "invoking" THEN 1 ELSE 0)
       /\ call[c].succeeded = 1
             => /\ pc[c] = "idle"
                /\ call[c].result = [kind |-> "ok", value |-> call[c].op_value]
       /\ (pc[c] = "idle" /\ call[c].result.kind \in {"error", "raised"})
             => call[c].succeeded = 0

\* a call that failed, was retried up to max_attempts and then succeeded
C9_Witness ==
    \E c \in Callers :
       /\ call[c].succeeded = 1
       /\ call[c].failed >= 1
       /\ call[c].invoked = call[c].config.max_attempts

\* the delays 1, 2, 4, 8, 16, 32, 60, 60, ... seconds, in ms, n = 1, 2, ...
ExpectedDelay(n) ==
    IF n <= 6 THEN <<1000, 2000, 4000, 8000, 16000, 32000>>[n] ELSE 60000

ClaimedConfig(config) ==
    /\ config.base_delay = 1000
    /\ config.exponential_base = 2
    /\ config.max_delay = 60000
    /\ ~config.jitter
    /\ config.backoff_strategy = "exponential_backoff"

\* C10: with base_delay=1, exponential_base=2, max_delay=60 and no jitter the
\* delay after the n-th failed attempt is the n-th of 1, 2, 4, 8, 16, 32, 60,
\* 60, ... seconds, and never above max_delay.
C10_DelaySequence ==
    ClaimedConfig(delay_in.config)
       => /\ delay_out = ExpectedDelay(delay_in.attempt + 1)
          /\ delay_out <= delay_in.config.max_delay

\* the delay after the 8th failed attempt is the cap
C10_Witness ==
    /\ ClaimedConfig(delay_in.config)
    /\ delay_in.attempt = 7
    /\ delay_out = 60000

\* every committed frame is in the stored timeline, in the order of receipt
InOrder(timeline) ==
    \A i, j \in 1..Len(timeline) : i < j => timeline[i].event < timeline[j].event

\* C7: the frames of one session are applied to Session Memory in the order
\* received and none is lost: the stored memory holds every persisted frame.
C7_SameSessionOrdering ==
    (~faulted /\ committed # {})
       => /\ StoredMemory(TheSession) # NoMemory
          /\ \A f \in committed :
                \E i \in 1..Len(StoredMemory(TheSession).timeline) :
                   StoredMemory(TheSession).timeline[i].event = f
          /\ InOrder(StoredMemory(TheSession).timeline)

\* C8: once the session has ended its memory is absent from the store until
\* it is created again.
C8_EndedIsTerminal ==
    (~faulted /\ ended) => ~Exists(TheSession)

\* the error kinds of the taxonomy, as the members are named in the source
Taxonomy ==
    {"network_error", "authentication_error", "validation_error",
     "resource_not_found", "rate_limit_error", "service_unavailable",
     "internal_error"}

\* caller c has made a call of retry_operation that is over
Returned(c) == pc[c] = "idle" /\ call[c].invoked + call[c].rejected > 0

\* C11: a retry_operation that ends in failure after three or more failed
\* attempts of the operation reports an error of severity critical.
C11_CriticalAfterThree ==
    \A c \in Callers :
       (Returned(c) /\ call[c].succeeded = 0 /\ call[c].failed >= CriticalAttempts)
          => /\ call[c].result.kind = "error"
             /\ call[c].result.severity = "critical"

\* C12: retry_operation returns the operation's result or a typed error
\* response with one error kind of the taxonomy and a non-empty list of
\* recovery actions; no exception leaves it.
C12_TypedErrorOrResult ==
    \A c \in Callers :
       Returned(c)
          => \/ call[c].result.kind = "ok"
             \/ /\ call[c].result.kind = "error"
                /\ call[c].result.error_type \in Taxonomy
                /\ Len(call[c].result.recovery_actions) > 0

\* the auto-executable actions of the error not taken before, in the order
\* of the menu
AutoActions(i) ==
    SelectSeq(i.error.recovery_actions,
              LAMBDA a : a.auto_executable
                         /\ a.action_type \notin i.context.recovery_actions_taken)

Succeeds(i, j) ==
    execute_recovery_action(AutoActions(i)[j].action_type, i.connectivity)

\* C13: automatic recovery executes the auto-executable actions in their
\* listed order; the first one that reports success ends the loop and the
\* outcome is a recovery response; if none succeeds the outcome is None.
C13_FirstSuccessRecovers ==
    LET auto == AutoActions(rec_in)
        n == Len(rec_out.executed)
    IN  /\ n <= Len(auto)
        /\ \A j \in 1..n : rec_out.executed[j] = auto[j].action_type
        /\ \A j \in 1..(n - 1) : ~Succeeds(rec_in, j)
        /\ IF \E j \in 1..Len(auto) : Succeeds(rec_in, j)
           THEN /\ Succeeds(rec_in, n)
                /\ rec_out.result.kind = "error"
                /\ rec_out.result.user_message = "resolved"
           ELSE /\ n = Len(auto)
                /\ rec_out.result.kind = "none"

\* C14: no external capability is called outside retry_operation: while a
\* message is handled, none of its calls of the model or of the session
\* store was made directly.
C14_ExternalCallsThroughRetry ==
    \A k \in Transports : handler[k].direct = {}

\* C15: for a memory of policy TIME(minutes) with a timeline,
\* should_end_session returns true if and only if the frame's time is at
\* least minutes after the first timeline entry, and does not raise.
C15_TimePolicy ==
    LET cfg == end_in.memory.settings.session_type
    IN  (cfg.type = "TIME" /\ cfg.minutes # NoMinutes /\ end_in.memory.timeline # << >>)
           => /\ ~end_out.raised
              /\ end_out.value <=> (end_in.frame.timestamp >= cfg.minutes * 60)

\* C16: the periodic sweep never removes a session of policy MANUAL from
\* the store.
C16_ManualNeverSwept ==
    [][(/\ last_cleanup' # last_cleanup
        /\ Exists(TheSession)
        /\ StoredMemory(TheSession).settings.session_type.type = "MANUAL")
          => Exists(TheSession)']_vars

\* C17: for a memory of policy ACTIVITY, should_end_session returns a value;
\* when the frame's app differs from current_activity.app the value is false
\* (the part of the claim that can be stated on the memories the store
\* holds, which carry no start of the activity).
C17_ActivityPolicy ==
    (/\ end_in.memory.settings.session_type.type = "ACTIVITY"
     /\ end_in.memory.current_activity # NoActivity
     /\ end_in.memory.timeline # << >>)
       => /\ ~end_out.raised
          /\ (end_in.memory.current_activity.app # end_in.frame.tree_summary.app_package)
                => ~end_out.value

C19_NoTimestampNoEnd ==
    (/\ end_in.memory.timeline # << >>
     /\ \A i \in 1..Len(end_in.memory.timeline) :
           ~Has(end_in.memory.timeline[i], "timestamp"))
       => /\ ~end_out.raised
          /\ ~end_out.value

Retained(result) == { result.claims[i] : i \in 1..Len(result.claims) }

\* C23: for every strictness s2 above the strictness s1 of the call,
\* min_confidence(s1) >= min_confidence(s2) and every claim the filter
\* retains at s1 is retained at s2, for all strictness values of [0,1] and
\* not only the keys of the table.
C23_MonotonicRelaxation ==
    filter_out # NotFiltered =>
       \A s2 \in StrictnessLevels :
          filter_in.strictness < s2 =>
             /\ Thresholds(filter_in.strictness).min_confidence
                   >= Thresholds(s2).min_confidence
             /\ Retained(filter_out)
                   \subseteq Retained(apply_strictness_filter(filter_in.result, s2))

\* the source requirement as the claim words it
MeetsRequirement(claim, thresholds) ==
    \/ TierCount(claim.sources, "A") >= 1
    \/ TierCount(claim.sources, "B") >= 1
    \/ /\ thresholds.tier_c_allowed
       /\ TierCount(claim.sources, "C") >= thresholds.min_sources

\* C24: apply_strictness_filter retains exactly the claims whose confidence
\* is at least min_confidence and whose sources meet the requirement, in
\* their original order and adding none, and leaves notes, summary and the
\* flat source list as they were; the rows of 0.0 and 1.0 are as stated.
C24_FilterSemantics ==
    /\ Thresholds(0).min_confidence = 90
    /\ ~Thresholds(0).tier_c_allowed
    /\ Thresholds(10) = [min_confidence |-> 50, min_sources |-> 0, tier_c_allowed |-> TRUE]
    /\ filter_out # NotFiltered =>
          LET thresholds == Thresholds(filter_in.strictness)
              ShouldKeep(claim) ==
                  /\ claim.confidence >= thresholds.min_confidence
                  /\ MeetsRequirement(claim, thresholds)
          IN  /\ filter_out.claims = SelectSeq(filter_in.result.claims, ShouldKeep)
              /\ filter_out.notes = filter_in.result.notes
              /\ filter_out.summary = filter_in.result.summary
              /\ filter_out.sources = filter_in.result.sources

\* the filter ran at strictness 0.0 on two claims of confidence 0.90, the
\* first with a tier-C source only and the second with a tier-A source, and
\* kept the second alone
C24_Witness ==
    /\ filter_out # NotFiltered
    /\ filter_in.strictness = 0
    /\ filter_in.result.claims =
          <<Claim("claim", 90, <<Source("u3", "C")>>),
            Claim("claim", 90, <<Source("u1", "A")>>)>>
    /\ filter_out.claims = <<Claim("claim", 90, <<Source("u1", "A")>>)>>

\* the four pairs of route and context the claim names
ExactMatch(route, data) ==
    \/ /\ route = "text"
       /\ data # NoContext
       /\ data.contextType = "text"
       /\ data.imageRef = Absent
       /\ data.transcriptDelta = Absent
    \/ /\ route = "text+image"
       /\ data # NoContext
       /\ data.contextType = "text_image"
       /\ data.imageRef \notin {Absent, ""}
    \/ /\ route \in {"short-video", "long-video"}
       /\ data # NoContext
       /\ data.contextType = "video"
       /\ data.transcriptDelta \notin {Absent, ""}
    \/ /\ route = "none"
       /\ data = NoContext

\* C21: a reply that is none of the four exact matches of route and context
\* fails the frame, with no Checker called and no memory committed, and the
\* context of an accepted reply carries the tag the reply declared.
C21_ExactRouting ==
    frame_out # NotProcessed =>
       /\ ~ExactMatch(reply_in.reply.route, reply_in.reply.agentContext)
             => /\ frame_out.raised
                /\ frame_out.checker = NoChecker
                /\ ~frame_out.committed
       /\ (~frame_out.raised /\ frame_out.response.agent_context # NoContext)
             => frame_out.response.agent_context.context_type
                   = reply_in.reply.agentContext.contextType

\* C22: for a reply the Manager step accepted, a Checker is called exactly
\* when the route is not none, it is the Checker of the route, it is given
\* the validated context and the strictness of the session, and at most one
\* Checker is called.
C22_Dispatch ==
    LET manager == ManagerAgent_process_frame(reply_in.reply)
    IN  (frame_out # NotProcessed /\ ~manager.raised) =>
           /\ (frame_out.checker # NoChecker) <=> (reply_in.reply.route # "none")
           /\ frame_out.checker # NoChecker =>
                 /\ frame_out.checker.agent = AgentFor(reply_in.reply.route)
                 /\ frame_out.checker.agent_context = manager.value.agent_context
                 /\ frame_out.checker.strictness = reply_in.strictness
           /\ frame_out.calls <= 1

\* C25: when the Checker raises or the synthesis step fails, process_frame
\* returns the Manager's response with the notifications of the reply, the
\* same in number, order, color, short text, details and sources.
C25_FallbackUnmodified ==
    LET out == AgentOrchestrator_process_frame(reply_in)
    IN  (/\ frame_out # NotProcessed
         /\ ~out.raised
         /\ (out.checker_raised \/ out.synthesis_failed))
           => out.response.notifications = reply_in.reply.notifications

\* C26: when the endpoint of a transport closes, the record of another
\* transport under the same session id stays in the table as it is: a
\* connect replaces the record of the id, and the close of the replaced
\* transport does not remove the newer record.
C26_NewerRecordKept ==
    [][\A k \in Transports :
          (endpoint[k].pc = "open" /\ endpoint'[k].pc = "closed")
             => \A sid \in ConnSessions :
                   (connections[sid] # NoRecord /\ connections[sid].websocket # k)
                      => connections'[sid] = connections[sid]]_vars

\* no handler or task is inside stop_heartbeat_monitor and no cancellation
\* is under way
Settled ==
    /\ \A t \in Loops : waiters[t] = 0
    /\ \A t \in Loops : loops[t].state # "stopping" /\ ~loops[t].cancel

\* C27: once the connects, disconnects and evictions have completed, a
\* heartbeat loop is running exactly when the connection table is not empty.
C27_LoopIffConnections ==
    Settled =>
       ((\E t \in Loops : Running(loops[t])) <=> (Connected(connections) # {}))

\* C28: a sweep removes every connection whose last heartbeat is more than
\* the timeout ago and leaves every live connection whose last heartbeat is
\* at most the timeout ago as it is; a heartbeat the server sends with
\* success leaves the table, the last-heartbeat times included, as it is.
C28_StaleEvictedBySweep ==
    [][/\ conn_event'.kind = "sweep" =>
             \A sid \in Connected(connections) :
                /\ now - connections[sid].last_heartbeat > ConnectionTimeout
                      => connections'[sid] = NoRecord
                /\ (/\ now - connections[sid].last_heartbeat <= ConnectionTimeout
                    /\ connections[sid].is_alive)
                      => connections'[sid] = connections[sid]
       /\ conn_event' = SendEvent("loop", FALSE, FALSE, TRUE)
             => connections' = connections]_vars

\* a sweep has evicted the connection of the session, which was never marked
\* dead, 40 s after its only heartbeat time
C28_Witness ==
    /\ conn_event = [kind |-> "sweep", evicted |-> {"s1"}]
    /\ connections["s1"] = NoRecord
    /\ now = 40

\* C29: after a send that failed, whoever sent it, the connection was marked
\* dead and its record is not in the table.
C29_FailedSendEvicts ==
    (conn_event.kind = "send" /\ conn_event.failed)
       => /\ conn_event.marked_dead
          /\ ~conn_event.in_table

\* C30: after lifespan has ended the cleanup task is done and no heartbeat
\* loop is running.
C30_ShutdownStopsLoops ==
    lifespan = "exited"
       => /\ cleanup_task = "done"
          /\ \A t \in Loops : ~Running(loops[t])

\* a call of get_session for the id has returned or raised
GetDone(session_id) ==
    /\ mgr.op = "get_session"
    /\ mgr.pc = "done"
    /\ mgr.session_id = session_id

GetSucceeded(session_id) ==
    /\ GetDone(session_id)
    /\ mgr.result.kind = "result"
    /\ mgr.result.success

\* a call of create_session with the settings has returned or raised
CreateDone(settings_data) ==
    /\ mgr.op = "create_session"
    /\ mgr.pc = "done"
    /\ mgr.settings_data = settings_data

\* C31: after create_session and update_session calls for an id, some of
\* whose writes to the durable store failed and fell back to the dictionary,
\* the memory get_session returns for the id is the one stored last.
C31_ReadsLatestWrite ==
    \A s \in StoreIds :
       (GetSucceeded(s) /\ ~deleted[s]) => mgr.result.data = latest[s]

\* C32: create_session with valid settings returns the fresh memory with
\* the requested settings and leaves it in the store, and a get_session for
\* the created id returns a memory, whatever the durable store does.
C32_CreateAbsorbsStoreFailure ==
    /\ \A sd \in SettingsBodies :
          (CreateDone(sd) /\ ~ValidationError(sd))
             => /\ mgr.result = [kind |-> "ok", value |-> CreatedMemory(sd)]
                /\ CreatedMemory(sd).timeline = << >>
                /\ CreatedMemory(sd).current_activity = NoActivity
                /\ Exists(mgr.session_id)
    /\ \A s \in StoreIds :
          (GetDone(s) /\ latest[s] # NoMemory) => GetSucceeded(s)

NotFound(result) ==
    /\ result.kind = "result"
    /\ ~result.success
    /\ result.error = "session_not_found"

C34_ValidationNotRetried ==
    \A sd \in SettingsBodies :
       (CreateDone(sd) /\ ValidationError(sd))
          => /\ mgr.invoked = 1
             /\ mgr.slept = 0
             /\ mgr.result.kind = "raised"
             /\ ~Exists(mgr.session_id)
             /\ BreakerOf(circuit_breakers, "create_session").failure_count = 0

\* C35: create_session with policy TIME and minutes 0 ends with an error
\* and stores no session; with policy TIME and no minutes it returns the
\* memory.
C35_TimeMinutes ==
    /\ CreateDone([sessionType |-> [type |-> "TIME", minutes |-> 0], strictness |-> 5])
          => /\ mgr.result.kind = "raised"
             /\ ~Exists(mgr.session_id)
    /\ CreateDone([sessionType |-> [type |-> "TIME"], strictness |-> 5])
          => /\ mgr.result.kind = "ok"
             /\ Exists(mgr.session_id)

\* C37: once delete_session has returned for an id, list_active_sessions
\* does not contain the id and get_session does not return a memory for it,
\* whether or not the delete on the durable store went through.
C37_DeletedStaysDeleted ==
    \A s \in StoreIds :
       deleted[s]
          => /\ \A keys_ok \in BOOLEAN : s \notin list_active_sessions(keys_ok)
             /\ ~GetSucceeded(s)

RetryResponse(c) ==
    retry_session_operation(call[c].result, operation_contexts, circuit_breakers,
                            "manual_retry_get_session", call[c].session_id, now)

\* C39: the manual retry endpoint answers success = true only if the
\* operation succeeded, and when retry_operation has used up its attempts
\* it answers success = false with the typed error.
C39_RetryEndpointReportsFailure ==
    \A c \in Callers :
       (pc[c] = "idle" /\ call[c].result # NoResult)
          => LET r == RetryResponse(c)
             IN  /\ ("success" \in DOMAIN r.body /\ r.body.success)
                       => call[c].succeeded = 1
                 /\ call[c].succeeded = 0
                       => /\ "success" \in DOMAIN r.body
                          /\ ~r.body.success
                          /\ r.body.error.kind = "error"

BreakerStates == {"closed", "open", "half_open"}

BreakerWellFormed(breaker) ==
    /\ breaker.state \in BreakerStates
    /\ breaker.failure_count >= 0
    /\ breaker.state = "closed" => breaker.failure_count < breaker.failure_threshold
    /\ breaker.state \in {"open", "half_open"}
          => /\ breaker.failure_count >= breaker.failure_threshold
             /\ breaker.next_attempt_time # NoTime

\* C38: every breaker of the registry has one of the three states, a count
\* that is not negative, a count below the threshold when closed, and a
\* count at or above the threshold and a next attempt time when open or
\* half_open; a step on the breaker of one operation leaves the breakers of
\* the other operations as they are.
C38_BreakerInvariant ==
    /\ [](\A o \in DOMAIN circuit_breakers : BreakerWellFormed(circuit_breakers[o]))
    /\ [][Cardinality({o \in RegistryOps :
                          BreakerOf(circuit_breakers', o) # BreakerOf(circuit_breakers, o)}) <= 1]_vars

\* the breaker of get_session is half_open after its timeout while the
\* breaker of create_session is closed with failures counted
C38_Witness ==
    /\ BreakerOf(circuit_breakers, "get_session").state = "half_open"
    /\ BreakerOf(circuit_breakers, "get_session").failure_count >= FailureThreshold
    /\ BreakerOf(circuit_breakers, "create_session").state = "closed"
    /\ BreakerOf(circuit_breakers, "create_session").failure_count > 0

\* C40: _invoke_with_tools invokes the model at most 3 times and ends; when
\* every reply asked for tools its result has no claims; a tool call that
\* raises becomes a tool_result with is_error among the results the next
\* message carries, and the loop goes on or ends at its limit.
C40_ToolLoopTerminates ==
    /\ [](/\ tool_loop.invocations <= MaxIterations
          /\ (tool_loop.pc = "done" /\ tool_loop.iteration = MaxIterations)
                => /\ tool_loop.result.kind = "ok"
                   /\ tool_loop.result.value.claims = << >>)
    /\ [][tool_loop.pc = "tools"
             => /\ tool_loop'.result.kind # "raised"
                /\ tool_loop'.iteration = tool_loop.iteration + 1
                /\ tool_loop'.pc =
                      (IF tool_loop'.iteration < MaxIterations THEN "invoke" ELSE "done")
                /\ LET results == tool_loop'.messages[Len(tool_loop'.messages)].content
                   IN  /\ Len(results) = Len(tool_loop.tool_calls)
                       /\ \A i \in 1..Len(results) :
                             /\ results[i].tool_use_id = tool_loop.tool_calls[i]
                             /\ results[i].is_error =
                                   (tool_loop'.outcomes[i] = "raises")]_vars
    /\ (tool_loop.pc \in {"invoke", "tools"}) ~> (tool_loop.pc = "done")

\* the loop has ended at its limit after three replies that asked for
\* tools, and a tool call of the last one raised
C40_Witness ==
    /\ tool_loop.pc = "done"
    /\ tool_loop.invocations = MaxIterations
    /\ tool_loop.iteration = MaxIterations
    /\ tool_loop.result = [kind |-> "ok", value |-> IterationLimit]
    /\ \E i \in 1..Len(tool_loop.outcomes) :
          /\ tool_loop.outcomes[i] = "raises"
          /\ tool_loop.messages[Len(tool_loop.messages)].content[i].is_error
====
